---- MODULE Spec2Model ----
(***************************************************************************)
(* Multisig escrow wallet: the PSBT coordination service                   *)
(* (coordinationService.ts), the wallet-service guards in front of it      *)
(* (walletService.ts) and the two pages that drive it (CreateEscrow and    *)
(* SignTransaction).                                                       *)
(*                                                                         *)
(* A public key is an integer 1..NumKeys; the integer order stands for     *)
(* the byte order of the keys.  A signature is identified by the key that  *)
(* made it (signing is deterministic).  A PSBT in memory is a record       *)
(*   [kind, m, pubkeys, inputs, outputs]                                   *)
(* where m/pubkeys are the witness script every input carries, inputs is   *)
(* a sequence of [utxo, value, partialSig] (partialSig a sequence of keys  *)
(* in insertion order) and outputs a sequence of [script, value].  The     *)
(* base64 text of a PSBT is the same record with every partialSig sorted   *)
(* by key, which is what the serializer emits.                             *)
(***************************************************************************)
EXTENDS Integers, Sequences, FiniteSets, TLC

\* ---------------------------------------------------------------- bounds
NumKeys == 3
MaxUtxos == 2
MaxOutputs == 2

\* Keys 1..NumKeys are the wallet's keys; key NumKeys + 1 belongs to a
\* mnemonic that is not part of the wallet.
Keys == 1..(NumKeys + 1)
OutputValues == {3, 7}

\* ----------------------------------------------------------- value helpers
RECURSIVE SumSeq(_)
SumSeq(s) == IF s = <<>> THEN 0 ELSE Head(s) + SumSeq(Tail(s))

SeqsUpTo(S, n) == UNION {[1..k -> S] : k \in 0..n}

Range(s) == {s[i] : i \in DOMAIN s}

NoPsbt == [kind |-> "none"]
Garbage == [kind |-> "garbage"]
NoTx == [kind |-> "none"]
NoDetails == [kind |-> "none"]
NoSigner == 0

Ok(v) == [ok |-> TRUE, err |-> "", val |-> v]
Fail(e) == [ok |-> FALSE, err |-> e, val |-> NoPsbt]

\* The key lists a wallet configuration can hold: the keys in key order,
\* and the same keys in an order that is not the key order.
Configs ==
  {[allPublicKeys |-> ks, threshold |-> t] :
     ks \in {[i \in 1..NumKeys |-> i],
             [i \in 1..NumKeys |-> IF i = 1 THEN NumKeys ELSE i - 1]},
     t \in 1..NumKeys}

ValidConfigs == {c \in Configs : c.threshold <= Len(c.allPublicKeys)}

\* What the block explorer can answer for the multisig address: a list of
\* unspent outputs, or a failure (network error, non-OK response).
ExplorerAnswers ==
  {[ok |-> TRUE, utxos |-> u] : u \in SeqsUpTo({5}, MaxUtxos)}
    \cup {[ok |-> FALSE, utxos |-> <<>>]}
OutputLists == SeqsUpTo(OutputValues, MaxOutputs)

\* ------------------------------------------------------------------ state
VARIABLES
  sdk,              \* walletService: sdk handle is non-null
  signer,           \* coordinationService.signer (a key, or NoSigner)
  config,           \* walletStore.config of the open wallet
  psbt,             \* CreateEscrow: psbt
  errorMessage,     \* CreateEscrow: errorMessage
  escrowDetails,    \* CreateEscrow: psbtDetails
  psbtInput,        \* SignTransaction: psbtInput
  psbtDetails,      \* SignTransaction: psbtDetails
  error,            \* SignTransaction: error
  newPsbtOutput,    \* SignTransaction: newPsbtOutput
  txHex,            \* SignTransaction: txHex handed to broadcastTransaction
  broadcastTxId,    \* SignTransaction: broadcastTxId
  ready,            \* answer of isPsbtReady(psbtInput, config.threshold)
  lastCall,         \* arguments and explorer answer of the last createPsbt
  store,            \* walletStore: initialized, address, error, signer
  wallets,          \* storageService: the list kept in localStorage
  setupPage,        \* setup page: step, threshold, totalSigners, ...
  navigated,        \* setup page: target of the last goto
  now,              \* the clock read by new Date()
  loaded,           \* what the last getWallets / getWalletById returned
  signerOp,         \* the last call of the signer module and its outcome
  earlier,          \* a call of the signer module a caller kept the result of
  signerObjects,    \* the MultiSigSigner objects constructed so far
  wasm,             \* the wasm module: initialized flag and pending calls
  session           \* walletService: the calls in flight and whose signer
                    \* and handle the module holds

vars == <<sdk, signer, config, psbt, errorMessage, escrowDetails, psbtInput,
          psbtDetails, error, newPsbtOutput, txHex, broadcastTxId, ready,
          lastCall, store, wallets, setupPage, navigated, now, loaded,
          signerOp, earlier, signerObjects, wasm, session>>

\* The variables of the escrow pages.
pageVars == <<config, psbt, errorMessage, escrowDetails, psbtInput,
              psbtDetails, error, newPsbtOutput, txHex, broadcastTxId, ready,
              lastCall>>

\* The variables of the setup page and of storage.
setupVars == <<wallets, setupPage, navigated, now, loaded>>

\* The kept signer call, the signer objects, the wasm module and the calls
\* of the wallet service in flight.
lateVars == <<earlier, signerObjects, wasm, session>>

\* What the escrow pages and the wallet service leave alone.
otherVars == <<store, setupVars, signerOp, lateVars>>

\* ------------------------------------------------- PSBT text <-> object
SortedSigs(sigs) == SortSeq(sigs, LAMBDA a, b : a < b)

toBase64_InsertionOrder(p) == p

\* Psbt.toBase64: key-value pairs of every input are written in key order.
toBase64(p) ==
  [p EXCEPT !.inputs =
     [i \in DOMAIN p.inputs |->
        [p.inputs[i] EXCEPT !.partialSig = SortedSigs(p.inputs[i].partialSig)]]]

\* Psbt.fromBase64: throws on text that is not a PSBT.
fromBase64(text) ==
  IF text.kind = "psbt" THEN Ok(text) ELSE Fail("InvalidPsbt")

\* -------------------------------------------------- address construction
p2ms_SortedKeys(m, pubkeys) ==
  [m |-> m, pubkeys |-> SortedSigs(pubkeys), n |-> Len(pubkeys)]

\* payments.p2ms: the redeem script is m, the keys in the order given, n.
p2ms(m, pubkeys) == [m |-> m, pubkeys |-> pubkeys, n |-> Len(pubkeys)]

\* The hash of a script; distinct scripts have distinct hashes.
sha256(script) == [preimage |-> script]

\* payments.p2wsh: the output script is version 0 with the hash of the
\* redeem script, the address is the encoding of the output script.
p2wsh(redeem) ==
  LET output == [version |-> 0, program |-> sha256(redeem)]
  IN  [redeem |-> redeem, output |-> output,
       address |-> [kind |-> "address", script |-> output]]

NoAddress == [kind |-> "none"]

\* allPubkeys.sort(...) of walletStore.initialize: ascending by hex text.
sortPubkeys(pubkeys) == SortSeq(pubkeys, LAMBDA a, b : a < b)

\* ------------------------------------------------------------ fetchUtxos
\* The catch block turns every failure of the request into the empty list.
fetchUtxos(answer) == IF answer.ok THEN answer.utxos ELSE <<>>

\* ------------------------------------------------------------- createPsbt
feeOf_Swapped(totalInput, totalOutput) == totalOutput - totalInput

\* const fee = totalInput - totalOutput
feeOf(totalInput, totalOutput) == totalInput - totalOutput

checkFunds_NoFeeCheck(utxos, fee) ==
  IF Len(utxos) = 0 THEN "NoUtxos" ELSE ""

\* The two throws of createPsbt: no UTXOs at the address, negative fee.
checkFunds(utxos, fee) ==
  IF Len(utxos) = 0 THEN "NoUtxos"
  ELSE IF fee < 0 THEN "InsufficientFunds"
  ELSE ""

createPsbt(pubkeys, threshold, outputs, answer) ==
  LET utxos == fetchUtxos(answer)
      totalInput == SumSeq(utxos)
      totalOutput == SumSeq(outputs)
      fee == feeOf(totalInput, totalOutput)
      inputs == [i \in DOMAIN utxos |->
                   [utxo |-> i, value |-> utxos[i], partialSig |-> <<>>]]
      outs == [i \in DOMAIN outputs |->
                 [script |-> "address", value |-> outputs[i]]]
      built == [kind |-> "psbt", m |-> threshold, pubkeys |-> pubkeys,
                inputs |-> inputs,
                outputs |-> Append(outs, [script |-> "", value |-> fee])]
      failure == checkFunds(utxos, fee)
  IN  IF failure # "" THEN Fail(failure) ELSE Ok(toBase64(built))

\* --------------------------------------------------------------- signPsbt
signInput_NoDuplicateCheck(input, pubkeys, key) ==
  IF key \notin Range(pubkeys) THEN [ok |-> FALSE, input |-> input]
  ELSE [ok |-> TRUE,
        input |-> [input EXCEPT !.partialSig = Append(@, key)]]

signInput_Replace(input, pubkeys, key) ==
  IF key \notin Range(pubkeys) THEN [ok |-> FALSE, input |-> input]
  ELSE IF key \in Range(input.partialSig) THEN [ok |-> FALSE, input |-> input]
  ELSE [ok |-> TRUE, input |-> [input EXCEPT !.partialSig = <<key>>]]

\* Psbt.signInput: the key must occur in the input's witness script, and
\* the input must not already hold a signature of that key; the new
\* signature is appended to the ones present.
signInput(input, pubkeys, key) ==
  IF key \notin Range(pubkeys) THEN [ok |-> FALSE, input |-> input]
  ELSE IF key \in Range(input.partialSig) THEN [ok |-> FALSE, input |-> input]
  ELSE [ok |-> TRUE,
        input |-> [input EXCEPT !.partialSig = Append(@, key)]]

\* Psbt.signAllInputs: tries every input, throws when none was signed.
signAllInputs(p, key) ==
  LET results == [i \in DOMAIN p.inputs |-> signInput(p.inputs[i], p.pubkeys, key)]
  IN  IF \A i \in DOMAIN p.inputs : ~results[i].ok
      THEN Fail("NoInputsSigned")
      ELSE Ok([p EXCEPT !.inputs = [i \in DOMAIN p.inputs |-> results[i].input]])

signPsbt(text, sgn) ==
  IF sgn = NoSigner THEN Fail("SignerNotSet")
  ELSE LET parsed == fromBase64(text)
       IN  IF ~parsed.ok THEN parsed
           ELSE LET signed == signAllInputs(parsed.val, sgn)
                IN  IF ~signed.ok THEN signed
                    ELSE Ok(toBase64(signed.val))

\* ----------------------------------------------------------- finalizePsbt
\* The signatures of an input in the order of the keys in its script.
getSortedSigs(p, input) ==
  SelectSeq(p.pubkeys, LAMBDA k : k \in Range(input.partialSig))

finalizeInput_NoThresholdCheck(p, input) ==
  LET sigs == getSortedSigs(p, input)
  IN  IF Len(sigs) > p.m THEN Fail("TooManySignatures")
      ELSE [ok |-> TRUE, err |-> "",
            val |-> [utxo |-> input.utxo, witness |-> sigs]]

\* Psbt.finalizeInput for a multisig script: exactly m signatures of script
\* keys are required; more than m is an error of its own.
finalizeInput(p, input) ==
  LET sigs == getSortedSigs(p, input)
  IN  IF Len(sigs) > p.m THEN Fail("TooManySignatures")
      ELSE IF Len(sigs) < p.m THEN Fail("CannotFinalize")
      ELSE [ok |-> TRUE, err |-> "",
            val |-> [utxo |-> input.utxo, witness |-> sigs]]

\* Psbt.finalizeAllInputs, then extractTransaction().toHex(): inputs are
\* finalized in order and the first one that cannot be stops the call.
finalizeAllInputs(p) ==
  LET fin == [i \in DOMAIN p.inputs |-> finalizeInput(p, p.inputs[i])]
      bad == {i \in DOMAIN p.inputs : ~fin[i].ok}
  IN  IF p.inputs = <<>> THEN Fail("NoInputs")
      ELSE IF bad # {}
      THEN Fail(fin[CHOOSE i \in bad : \A j \in bad : i <= j].err)
      ELSE Ok([kind |-> "tx",
               inputs |-> [i \in DOMAIN p.inputs |-> fin[i].val],
               outputs |-> p.outputs])

finalizePsbt(text) ==
  LET parsed == fromBase64(text)
  IN  IF ~parsed.ok THEN parsed ELSE finalizeAllInputs(parsed.val)

\* ------------------------------------------------------------ isPsbtReady
signatureCount(p) ==
  SumSeq([i \in DOMAIN p.inputs |-> Len(p.inputs[i].partialSig)])

isPsbtReady(text, threshold) ==
  LET parsed == fromBase64(text)
  IN  IF ~parsed.ok THEN parsed
      ELSE Ok(signatureCount(parsed.val) >= threshold)

\* ----------------------------------------------------- extractPsbtDetails
\* address.fromOutputScript throws for a script that is no address form;
\* the empty script of the fee output is one.
fromOutputScript(script) ==
  IF script = "" THEN Fail("NoMatchingAddress") ELSE Ok(script)

extractPsbtDetails(text) ==
  LET parsed == fromBase64(text)
      p == parsed.val
  IN  IF ~parsed.ok THEN parsed
      ELSE IF \E i \in DOMAIN p.outputs : ~fromOutputScript(p.outputs[i].script).ok
      THEN Fail("NoMatchingAddress")
      ELSE Ok([kind |-> "details",
               inputs |-> [i \in DOMAIN p.inputs |-> p.inputs[i].utxo],
               outputs |-> p.outputs,
               signedBy |-> SelectSeq([i \in DOMAIN p.inputs |-> i],
                              LAMBDA i : Len(p.inputs[i].partialSig) > 0)])

\* ---------------------------------------------------------- walletService
\* Every PSBT operation of the wallet service first checks the SDK handle.
createMultisigTx(pubkeys, threshold, outputs, answer) ==
  IF ~sdk THEN Fail("SdkNotInitialized")
  ELSE createPsbt(pubkeys, threshold, outputs, answer)

getPsbtDetails(text) ==
  IF ~sdk THEN Fail("SdkNotInitialized") ELSE extractPsbtDetails(text)

walletSignPsbt(text) ==
  IF ~sdk THEN Fail("SdkNotInitialized") ELSE signPsbt(text, signer)

\* The components outside MultiSigSigner that get hold of signer.hdNode,
\* the node with the private key, while signPsbt runs: the coordination
\* service reads the field and hands the node to Psbt.signAllInputs.
hdNodeHolders(text) ==
  IF ~sdk THEN {}
  ELSE IF signer = NoSigner THEN {}
  ELSE IF ~fromBase64(text).ok THEN {}
  ELSE {"coordinationService", "Psbt"}

walletFinalizePsbt(text) ==
  IF ~sdk THEN Fail("SdkNotInitialized") ELSE finalizePsbt(text)

broadcastTransaction(tx) ==
  IF ~sdk THEN Fail("SdkNotInitialized") ELSE Ok("poc_broadcast_tx")

NoCall == [kind |-> "none"]

\* The walletStore before initialize: writable({initialized: false, ...}).
NoStore == [initialized |-> FALSE, address |-> NoAddress, error |-> "",
            signer |-> NoSigner]

\* The setup page as mounted.
NoKey == 0
NewSetupPage ==
  [step |-> "CONFIG", threshold |-> 2, totalSigners |-> 3,
   myPublicKey |-> NoKey, errorMessage |-> "", joinError |-> ""]

NoNav == 0
NoOp == [op |-> "none"]

\* The two places a program keeps MultiSigSigner objects in, empty.
Slots == {"first", "second"}
NoObject == [kind |-> "none"]

\* The callers of initWasm that can be in flight at the same time.
MaxCallers == 3

\* The invocations of init() that are followed.
MaxInits == 4

\* The wasm module as loaded: let initialized = false, no call in flight,
\* init() never invoked.  inits counts the invocations of init(), live
\* those of them that have not failed.
NoWasm == [initialized |-> FALSE, pc |-> [c \in 1..MaxCallers |-> "idle"],
           inits |-> 0, live |-> 0]

\* The wallet service as loaded: let sdk = null, let multiSigSigner = null,
\* no call in flight.  pc is where each caller of initWalletWithMultisig
\* stands, call what its call in flight was given; multiSigSigner, signerOf
\* and sdkOf name the caller whose call made the module's signer, the
\* coordination service's signer and the SDK handle ("" for null).
NoSession ==
  [pc |-> [c \in {"generatePublicKey", "initialize"} |-> "idle"],
   call |-> [c \in {"generatePublicKey", "initialize"} |-> NoCall],
   multiSigSigner |-> "", signerOf |-> "", sdkOf |-> "",
   disconnect |-> "idle"]

\* ------------------------------------------------------------------- Init
\* The walletStore before a wallet is opened: config: null.
NoConfig == [kind |-> "none"]

\* The state after the modules are loaded, with the configuration of the
\* wallet that will be opened and the list the device's storage holds.
InitWith(configs, storage) ==
  /\ sdk = FALSE
  /\ signer = NoSigner
  /\ config \in configs
  /\ psbt = NoPsbt
  /\ errorMessage = ""
  /\ escrowDetails = NoDetails
  /\ psbtInput = NoPsbt
  /\ psbtDetails = NoDetails
  /\ error = ""
  /\ newPsbtOutput = NoPsbt
  /\ txHex = NoTx
  /\ broadcastTxId = ""
  /\ ready = "unknown"
  /\ lastCall = NoCall
  /\ store = NoStore
  /\ wallets \in storage
  /\ setupPage = NewSetupPage
  /\ navigated = NoNav
  /\ now = 1
  /\ loaded = <<>>
  /\ signerOp = NoOp
  /\ earlier = NoOp
  /\ signerObjects = [o \in Slots |-> NoObject]
  /\ wasm = NoWasm
  /\ session = NoSession

\* A wallet of the device is open; its storage plays no part.
Init == InitWith(ValidConfigs, {<<>>})

\* ---------------------------------------------------------------- actions
\* initWalletWithMultisig, successful: the signer made from the mnemonic
\* (its root key is k) is installed and the SDK is connected.
initWalletWithMultisig(k) ==
  /\ signer' = k
  /\ sdk' = TRUE
  /\ UNCHANGED <<config, psbt, errorMessage, escrowDetails, psbtInput,
                 psbtDetails, error, newPsbtOutput, txHex, broadcastTxId,
                 ready, lastCall>>
  /\ UNCHANGED otherVars

\* initWallet, successful: the SDK is connected with the mnemonic alone.
initWallet ==
  /\ sdk' = TRUE
  /\ UNCHANGED <<signer, config, psbt, errorMessage, escrowDetails, psbtInput,
                 psbtDetails, error, newPsbtOutput, txHex, broadcastTxId,
                 ready, lastCall>>
  /\ UNCHANGED otherVars

\* disconnect, successful: only the SDK handle is dropped.
disconnect ==
  /\ sdk
  /\ sdk' = FALSE
  /\ UNCHANGED <<signer, config, psbt, errorMessage, escrowDetails, psbtInput,
                 psbtDetails, error, newPsbtOutput, txHex, broadcastTxId,
                 ready, lastCall>>
  /\ UNCHANGED otherVars

NoPayment == [kind |-> "none"]

\* A call of createMultisigTx: payment is the multisig payment createPsbt
\* builds first and whose address it asks the explorer about.
CallOf(outputs, answer, created) ==
  [kind |-> "call", outputs |-> outputs, answer |-> answer,
   result |-> created,
   payment |-> IF created.err = "SdkNotInitialized" THEN NoPayment
               ELSE p2wsh(p2ms(config.threshold, config.allPublicKeys))]

\* walletStore.initialize: the signer is made from the saved mnemonic (root
\* key k, NoSigner when there is none), the address is computed from the
\* sorted keys, balance and history are fetched (each fetch reports its
\* own failure), and the store is marked initialized.
initialize(k, fetched) ==
  LET allPubkeys == sortPubkeys(config.allPublicKeys)
      address == p2wsh(p2ms(config.threshold, allPubkeys)).address
  IN  /\ IF k = NoSigner
         THEN /\ store' = [store EXCEPT !.error = "NoMnemonic"]
              /\ UNCHANGED <<sdk, signer>>
         ELSE /\ signer' = k
              /\ sdk' = TRUE
              /\ store' = [initialized |-> TRUE, address |-> address,
                           error |-> IF fetched THEN "" ELSE "FetchFailed",
                           signer |-> k]
      /\ UNCHANGED <<pageVars, setupVars, signerOp, lateVars>>

\* CreateEscrow.handleCreateEscrow: one output of the entered amount.
handleCreateEscrow(amount, answer) ==
  LET outputs == <<amount>>
      created == createMultisigTx(config.allPublicKeys, config.threshold,
                                  outputs, answer)
      details == getPsbtDetails(created.val)
  IN  /\ lastCall' = CallOf(outputs, answer, created)
      /\ psbt' = IF created.ok THEN created.val ELSE NoPsbt
      /\ escrowDetails' = IF created.ok /\ details.ok THEN details.val
                          ELSE NoDetails
      /\ errorMessage' = IF ~created.ok THEN created.err
                         ELSE IF ~details.ok THEN details.err ELSE ""
      /\ UNCHANGED <<sdk, signer, config, psbtInput, psbtDetails, error,
                     newPsbtOutput, txHex, broadcastTxId, ready>>
      /\ UNCHANGED otherVars

\* A caller of walletService.createMultisigTx with any list of outputs.
callCreateMultisigTx(outputs, answer) ==
  /\ Len(outputs) # 1
  /\ lastCall' = CallOf(outputs, answer,
                        createMultisigTx(config.allPublicKeys,
                                         config.threshold, outputs, answer))
  /\ UNCHANGED <<sdk, signer, config, psbt, errorMessage, escrowDetails,
                 psbtInput, psbtDetails, error, newPsbtOutput, txHex,
                 broadcastTxId, ready>>
  /\ UNCHANGED otherVars

\* The PSBT texts a cosigner of this wallet can have built and sent.
BuiltPsbts ==
  {c.val : c \in {r \in {createPsbt(config.allPublicKeys, config.threshold,
                                     <<a>>, ans) :
                            a \in OutputValues, ans \in ExplorerAnswers} :
                   r.ok}}

\* The sign page is opened (its variables have their initial values) and a
\* PSBT text is put into its textarea: one received from a cosigner, the
\* one just signed here, or something that is no PSBT.
mountSignPage(text) ==
  /\ text # NoPsbt
  /\ psbtInput' = text
  /\ psbtDetails' = NoDetails
  /\ error' = ""
  /\ newPsbtOutput' = NoPsbt
  /\ txHex' = NoTx
  /\ broadcastTxId' = ""
  /\ ready' = "unknown"
  /\ UNCHANGED <<sdk, signer, config, psbt, errorMessage, escrowDetails,
                 lastCall>>
  /\ UNCHANGED otherVars

\* SignTransaction.handleAnalyzePsbt
handleAnalyzePsbt ==
  LET details == getPsbtDetails(psbtInput)
  IN  /\ newPsbtOutput' = NoPsbt
      /\ broadcastTxId' = ""
      /\ IF psbtInput = NoPsbt
         THEN error' = "EmptyInput" /\ psbtDetails' = NoDetails
         ELSE IF details.ok
         THEN error' = "" /\ psbtDetails' = details.val
         ELSE error' = details.err /\ psbtDetails' = NoDetails
      /\ UNCHANGED <<sdk, signer, config, psbt, errorMessage, escrowDetails,
                     psbtInput, txHex, ready, lastCall>>
      /\ UNCHANGED otherVars

handleSignPsbt_ResetsInput ==
  LET signed == walletSignPsbt(psbtInput)
  IN  /\ error' = signed.err
      /\ newPsbtOutput' = IF signed.ok THEN signed.val ELSE newPsbtOutput
      /\ psbtInput' = IF signed.ok THEN psbtInput ELSE NoPsbt
      /\ UNCHANGED <<sdk, signer, config, psbt, errorMessage, escrowDetails,
                     psbtDetails, txHex, broadcastTxId, ready, lastCall>>
      /\ UNCHANGED otherVars

\* SignTransaction.handleSignPsbt
handleSignPsbt ==
  LET signed == walletSignPsbt(psbtInput)
  IN  /\ error' = signed.err
      /\ newPsbtOutput' = IF signed.ok THEN signed.val ELSE newPsbtOutput
      /\ UNCHANGED <<sdk, signer, config, psbt, errorMessage, escrowDetails,
                     psbtInput, psbtDetails, txHex, broadcastTxId, ready,
                     lastCall>>
      /\ UNCHANGED otherVars

\* SignTransaction.handleFinalizeAndBroadcast
handleFinalizeAndBroadcast ==
  LET final == walletFinalizePsbt(psbtInput)
      sent == broadcastTransaction(final.val)
  IN  /\ error' = IF ~final.ok THEN final.err ELSE sent.err
      /\ txHex' = IF final.ok THEN final.val ELSE txHex
      /\ broadcastTxId' = IF final.ok /\ sent.ok THEN sent.val
                          ELSE broadcastTxId
      /\ UNCHANGED <<sdk, signer, config, psbt, errorMessage, escrowDetails,
                     psbtInput, psbtDetails, newPsbtOutput, ready, lastCall>>
      /\ UNCHANGED otherVars

\* SignTransaction: $: isReadyForBroadcast, which chooses between 'Add Your
\* Signature' and 'Finalize & Broadcast'.
isReadyForBroadcast ==
  IF psbtDetails # NoDetails THEN Len(psbtDetails.signedBy) >= 2 ELSE FALSE

\* A caller asks the coordination service whether psbtInput is ready for
\* the wallet's threshold.
checkPsbtReady ==
  LET answer == isPsbtReady(psbtInput, config.threshold)
  IN  /\ ready' = IF ~answer.ok THEN "error"
                  ELSE IF answer.val THEN "ready" ELSE "notReady"
      /\ UNCHANGED <<sdk, signer, config, psbt, errorMessage, escrowDetails,
                     psbtInput, psbtDetails, error, newPsbtOutput, txHex,
                     broadcastTxId, lastCall>>
      /\ UNCHANGED otherVars

\* The signing round on the sign page.
Next ==
  \/ \E k \in Keys : initWalletWithMultisig(k)
  \/ initWallet
  \/ disconnect
  \/ \E text \in BuiltPsbts \cup {newPsbtOutput, Garbage} : mountSignPage(text)
  \/ handleAnalyzePsbt
  \/ handleSignPsbt
  \/ handleFinalizeAndBroadcast
  \/ checkPsbtReady

Spec == Init /\ [][Next]_vars

\* Building transactions on the CreateEscrow page and through the service.
NextCreate ==
  \/ \E k \in Keys : initWalletWithMultisig(k)
  \/ initWallet
  \/ disconnect
  \/ \E amount \in OutputValues, answer \in ExplorerAnswers :
       handleCreateEscrow(amount, answer)
  \/ \E outputs \in OutputLists, answer \in ExplorerAnswers :
       callCreateMultisigTx(outputs, answer)

SpecCreate == Init /\ [][NextCreate]_vars

\* Opening a wallet (the store computes the address to fund) and creating
\* a spend from it.
NextFund ==
  \/ \E k \in Keys \cup {NoSigner}, fetched \in BOOLEAN :
       initialize(k, fetched)
  \/ \E amount \in OutputValues, answer \in ExplorerAnswers :
       handleCreateEscrow(amount, answer)
  \/ disconnect

SpecFund == Init /\ [][NextFund]_vars

\* ============================================================ wallet setup
\* ------------------------------------------------------------ more bounds
MaxTime == 2

\* The mnemonic saved on this device: none, or the one with root key 1.
SavedMnemonics == {NoSigner, 1}

\* What the prompts of finalizeSetup are answered with, for n participants:
\* the n keys, the n keys with the last answer repeating the first key, and
\* the n keys with the last prompt left empty.
EnteredKeyLists(n) ==
  {[i \in 1..n |-> i],
   [i \in 1..n |-> IF i = n THEN 1 ELSE i],
   [i \in 1..n |-> IF i = n THEN NoKey ELSE i]}

\* The invite codes a user can paste: nothing, text that is not base64
\* JSON, JSON objects in which label, threshold and initiatorPublicKey
\* are present or missing ("" / 0 / NoKey stand for a missing or falsy
\* field), and the invite of another participant, whose key is 2.
JoinCodes ==
  {[kind |-> k, label |-> "", threshold |-> 0, initiatorPublicKey |-> NoKey] :
     k \in {"empty", "garbage"}}
  \cup {[kind |-> "json", label |-> l, threshold |-> t,
         initiatorPublicKey |-> i] :
          l \in {"", "escrow"}, t \in {0, 2, NumKeys}, i \in {NoKey, 1}}
  \cup {[kind |-> "json", label |-> "escrow", threshold |-> 2,
         initiatorPublicKey |-> 2]}

NoIndex == -1

\* A record of the stored list.  hasAllPublicKeys says that the record has
\* an allPublicKeys array; initiatorPublicKey and myPublicKey are fields
\* only records of earlier versions have.  via and reconstructed are not
\* stored: they remember which path wrote the record and whether migrateConfig
\* filled in its key list.
WalletRecord(id, threshold, cosigners, allKeys, date, index, via) ==
  [id |-> id, threshold |-> threshold, cosignerPublicKeys |-> cosigners,
   allPublicKeys |-> allKeys, creationDate |-> date, signerIndex |-> index,
   hasAllPublicKeys |-> TRUE, initiatorPublicKey |-> NoKey,
   myPublicKey |-> NoKey, via |-> via, reconstructed |-> FALSE]

\* Records written before allPublicKeys existed (ids and dates below those
\* of every new record).
LegacyRecords ==
  {[WalletRecord(0, 2, <<2, 3>>, <<>>, 0, NoIndex, "legacy")
      EXCEPT !.hasAllPublicKeys = FALSE, !.initiatorPublicKey = i,
             !.myPublicKey = k] : i \in {NoKey, 1}, k \in {NoKey, 1}}

\* ---------------------------------------------------------- storageService
migrateConfig(r) ==
  IF r.hasAllPublicKeys THEN r
  ELSE [r EXCEPT
          !.allPublicKeys =
             IF r.initiatorPublicKey # NoKey
             THEN <<r.initiatorPublicKey>> \o r.cosignerPublicKeys
             ELSE IF r.myPublicKey # NoKey
             THEN <<r.myPublicKey>> \o r.cosignerPublicKeys
             ELSE r.cosignerPublicKeys,
          !.hasAllPublicKeys = TRUE,
          !.reconstructed = TRUE]

\* getWallets: every record migrated, newest first.
getWallets(ws) ==
  SortSeq([i \in DOMAIN ws |-> migrateConfig(ws[i])],
          LAMBDA a, b : a.creationDate > b.creationDate)

\* addWallet: the loaded list with the new record pushed, unless a record
\* with the same id is in it.
addWallet(ws, cfg) ==
  LET cur == getWallets(ws)
  IN  IF \E i \in DOMAIN cur : cur[i].id = cfg.id THEN ws
      ELSE Append(cur, cfg)

\* getWalletById: the first loaded record with the id, migrated again.
getWalletById(ws, id) ==
  LET cur == getWallets(ws)
      found == SelectSeq(cur, LAMBDA r : r.id = id)
  IN  IF found = <<>> THEN <<>> ELSE <<migrateConfig(Head(found))>>

removeWallet(ws, id) == SelectSeq(getWallets(ws), LAMBDA r : r.id # id)

\* ---------------------------------------------------------------- Init
\* The setup page is opened on a device whose storage is empty.
InitSetup == InitWith({NoConfig}, {<<>>})

\* The storage a device can hold when the application starts: nothing, or
\* one record of an earlier version.
InitStorage ==
  InitWith({NoConfig}, {<<>>} \cup {<<r>> : r \in LegacyRecords})

\* ------------------------------------------------------ setup page actions
\* The setup page is opened again: a new component with initial variables.
mountSetupPage ==
  /\ setupPage' = NewSetupPage
  /\ navigated' = NoNav
  /\ UNCHANGED <<sdk, signer, pageVars, store, signerOp, wallets, now, loaded,
                 lateVars>>

\* Time passes between two reads of the clock.
tick ==
  /\ now < MaxTime
  /\ now' = now + 1
  /\ UNCHANGED <<sdk, signer, pageVars, store, signerOp, wallets, setupPage,
                 navigated, loaded, lateVars>>

\* handleCreate with t in the threshold field; totalSigners keeps the
\* number of the wallet's keys.  When the range checks pass it runs
\* generatePublicKey with the saved mnemonic k.
handleCreate(t, k) ==
  LET page == [setupPage EXCEPT !.threshold = t, !.totalSigners = NumKeys]
  IN  /\ setupPage.step = "CONFIG"
      /\ IF t > page.totalSigners
         THEN /\ setupPage' = [page EXCEPT !.errorMessage = "ThresholdTooHigh"]
              /\ UNCHANGED <<sdk, signer>>
         ELSE IF t < 1
         THEN /\ setupPage' = [page EXCEPT !.errorMessage = "ThresholdTooLow"]
              /\ UNCHANGED <<sdk, signer>>
         ELSE IF k = NoSigner
         THEN /\ setupPage' = [page EXCEPT !.errorMessage = "NoWallet"]
              /\ UNCHANGED <<sdk, signer>>
         ELSE /\ setupPage' = [page EXCEPT !.errorMessage = "",
                                           !.myPublicKey = k,
                                           !.step = "SHARE"]
              /\ signer' = k
              /\ sdk' = TRUE
      /\ UNCHANGED <<pageVars, store, signerOp, wallets, navigated, now,
                     loaded, lateVars>>

\* finalizeSetup: pubKeys are the answers to the key prompts, index the
\* answer to the index prompt (0 when it is cancelled or not a number).
finalizeSetup(pubKeys, index) ==
  LET n == setupPage.totalSigners
      others == [i \in 1..(n - 1) |->
                   IF i < index THEN pubKeys[i] ELSE pubKeys[i + 1]]
      cfg == WalletRecord(now, setupPage.threshold, others, pubKeys, now,
                          index - 1, "create")
  IN  /\ setupPage.step = "SHARE"
      /\ Len(pubKeys) = n
      /\ IF \E i \in 1..n : pubKeys[i] = NoKey
         THEN UNCHANGED <<wallets, setupPage>>
         ELSE IF index - 1 < 0 \/ index - 1 >= n
         THEN UNCHANGED <<wallets, setupPage>>
         ELSE /\ wallets' = addWallet(wallets, cfg)
              /\ setupPage' = [setupPage EXCEPT !.step = "FINALIZE"]
      /\ UNCHANGED <<sdk, signer, pageVars, store, signerOp, navigated, now,
                     loaded, lateVars>>

validJoinCode_NoFieldCheck(code) == code.kind = "json"

\* The payload check of handleJoin: the text decodes and the three fields
\* are truthy.
validJoinCode(code) ==
  /\ code.kind = "json"
  /\ code.label # ""
  /\ code.threshold # 0
  /\ code.initiatorPublicKey # NoKey

\* handleJoin with code in the join-code field.
handleJoin(code) ==
  LET allKeys == <<code.initiatorPublicKey, setupPage.myPublicKey>>
      cfg == WalletRecord(now, code.threshold, <<code.initiatorPublicKey>>,
                          allKeys, now, NoIndex, "join")
  IN  /\ IF code.kind = "empty"
         THEN /\ setupPage' = [setupPage EXCEPT !.joinError = "EnterJoinCode"]
              /\ UNCHANGED <<wallets, navigated>>
         ELSE IF ~validJoinCode(code)
         THEN /\ setupPage' = [setupPage EXCEPT !.joinError = "InvalidJoinCode"]
              /\ UNCHANGED <<wallets, navigated>>
         ELSE /\ setupPage' = [setupPage EXCEPT !.joinError = ""]
              /\ wallets' = addWallet(wallets, cfg)
              /\ navigated' = cfg.id
      /\ UNCHANGED <<sdk, signer, pageVars, store, signerOp, now, loaded,
                     lateVars>>

\* createJoinCode: btoa(JSON.stringify(...)) of the page's label, threshold,
\* totalSigners and public key; atob and JSON.parse give the object back.
createJoinCode(label) ==
  [kind |-> "json", label |-> label, threshold |-> setupPage.threshold,
   totalSigners |-> setupPage.totalSigners,
   initiatorPublicKey |-> setupPage.myPublicKey]

\* The threshold field takes 0 to one more than the keys; the index prompt
\* is answered with nothing, the first participant or a number past the
\* last one.
NextSetup ==
  \/ mountSetupPage
  \/ tick
  \/ \E t \in 0..(NumKeys + 1), k \in SavedMnemonics : handleCreate(t, k)
  \/ \E pubKeys \in EnteredKeyLists(NumKeys), index \in {0, 1, NumKeys + 1} :
       finalizeSetup(pubKeys, index)
  \/ \E code \in JoinCodes : handleJoin(code)
  \/ /\ setupPage.step = "SHARE"
     /\ \E label \in {"", "escrow"} : handleJoin(createJoinCode(label))

SpecSetup == InitSetup /\ [][NextSetup]_vars

\* ------------------------------------------------------- storage actions
\* The configurations a setup page stores at the current time.
NewConfigs ==
  {WalletRecord(now, t, SubSeq(ks, 2, Len(ks)), ks, now, 0, "create") :
     t \in {2},
     ks \in {l \in EnteredKeyLists(NumKeys) : NoKey \notin Range(l)}}

callAddWallet(cfg) ==
  /\ wallets' = addWallet(wallets, cfg)
  /\ UNCHANGED <<sdk, signer, pageVars, store, signerOp, setupPage, navigated,
                 now, loaded, lateVars>>

\* The wallet list page reads the list.
callGetWallets ==
  /\ loaded' = getWallets(wallets)
  /\ UNCHANGED <<sdk, signer, pageVars, store, signerOp, setupPage, navigated,
                 now, wallets, lateVars>>

\* The wallet page reads its configuration.
callGetWalletById(id) ==
  /\ loaded' = getWalletById(wallets, id)
  /\ UNCHANGED <<sdk, signer, pageVars, store, signerOp, setupPage, navigated,
                 now, wallets, lateVars>>

\* deleteWallet of the wallet page.
callRemoveWallet(id) ==
  /\ wallets' = removeWallet(wallets, id)
  /\ UNCHANGED <<sdk, signer, pageVars, store, signerOp, setupPage, navigated,
                 now, loaded, lateVars>>

NextStorage ==
  \/ tick
  \/ \E cfg \in NewConfigs : callAddWallet(cfg)
  \/ callGetWallets
  \/ \E id \in 0..MaxTime : callGetWalletById(id)
  \/ \E id \in 0..MaxTime : callRemoveWallet(id)

SpecStorage == InitStorage /\ [][NextStorage]_vars

\* ============================================================ the signer
\* ------------------------------------------------------------ more bounds
MaxCosigners == 2

\* A cosigner key as text: whether it starts with "0x", whether the rest
\* consists of hex digits only, and how many characters the rest has.
KeyTexts ==
  {[prefix |-> p, hex |-> h, length |-> l] :
     p \in BOOLEAN, h \in BOOLEAN, l \in {64, 66, 130}}

CosignerTexts == SeqsUpTo(KeyTexts, MaxCosigners)

\* The root keys of the mnemonics signers are made from.
SignerRoots == {1, 2}

\* The digests handed to the signer and the derivation paths, the last one
\* a text that is no path.
Digests == {1, 2}
ValidPaths == {"m/0", "m/1"}
Paths == ValidPaths \cup {"not a path"}

\* An operation that throws returns no bytes.
NoBytes == [kind |-> "none"]

\* The first reason the map over the cosigner keys throws for, "" if none:
\* the text after an optional "0x" must be hex digits, 66 or 130 of them.
keyError(key) ==
  IF ~key.hex THEN "InvalidHex"
  ELSE IF key.length \notin {66, 130} THEN "InvalidLength"
  ELSE ""

\* createMultiSigSigner: the seed and the HD root are computed first, then
\* the cosigner keys are converted; steps lists the key-derivation calls
\* made, signer is the root key of the object returned.
createMultiSigSigner(k, texts) ==
  LET steps == <<"mnemonicToSeedSync", "fromSeed">>
      bad == {i \in DOMAIN texts : keyError(texts[i]) # ""}
      first == CHOOSE i \in bad : \A j \in bad : i <= j
  IN  IF bad # {}
      THEN [ok |-> FALSE, err |-> keyError(texts[first]), steps |-> steps,
            signer |-> NoSigner, cosignerKeys |-> <<>>]
      ELSE [ok |-> TRUE, err |-> "", steps |-> steps, signer |-> k,
            cosignerKeys |-> [i \in DOMAIN texts |-> texts[i].length \div 2]]

\* hdNode.derivePath(path): the child node of root at path; its public key
\* is identified by the pair.
derivePath(root, path) == <<root, path>>

\* What ecc.sign can hand back for a digest and the private key of child:
\* a signature of the digest by that key, a signature that is not one of
\* the digest, nothing, or an exception.
EccSignResults(child, msg) ==
  {[kind |-> "signature", by |-> child, msg |-> msg],
   [kind |-> "signature", by |-> child, msg |-> msg + 1],
   [kind |-> "null", by |-> child, msg |-> msg],
   [kind |-> "throw", by |-> child, msg |-> msg]}

\* ecc.verify(msg, publicKey, signature)
verify(msg, publicKey, signature) ==
  signature.by = publicKey /\ signature.msg = msg

signEcdsa_NoSelfVerify(root, hasPrivateKey, msg, path, produced) ==
  IF path \notin ValidPaths THEN [ok |-> FALSE, err |-> "InvalidPath",
                                  val |-> NoBytes]
  ELSE IF ~hasPrivateKey THEN [ok |-> FALSE, err |-> "NoPrivateKey",
                               val |-> NoBytes]
  ELSE IF produced.kind = "throw" THEN [ok |-> FALSE, err |-> "SignFailed",
                                        val |-> NoBytes]
  ELSE IF produced.kind = "null" THEN [ok |-> FALSE, err |-> "NoSignature",
                                       val |-> NoBytes]
  ELSE [ok |-> TRUE, err |-> "", val |-> produced]

\* MultiSigSigner.signEcdsa; produced is what ecc.sign hands back.
signEcdsa(root, hasPrivateKey, msg, path, produced) ==
  IF path \notin ValidPaths THEN [ok |-> FALSE, err |-> "InvalidPath",
                                  val |-> NoBytes]
  ELSE IF ~hasPrivateKey THEN [ok |-> FALSE, err |-> "NoPrivateKey",
                               val |-> NoBytes]
  ELSE IF produced.kind = "throw" THEN [ok |-> FALSE, err |-> "SignFailed",
                                        val |-> NoBytes]
  ELSE IF produced.kind = "null" THEN [ok |-> FALSE, err |-> "NoSignature",
                                       val |-> NoBytes]
  ELSE IF ~verify(msg, derivePath(root, path), produced)
  THEN [ok |-> FALSE, err |-> "SignatureInvalid", val |-> NoBytes]
  ELSE [ok |-> TRUE, err |-> "", val |-> produced]

\* What ecc.signRecoverable can hand back for a digest and the master
\* private key: a signature with the recovery id that recovers the master
\* key, the signature with the other recovery id, a signature of something
\* else, bytes nothing can be recovered from, nothing, or an exception.
EccRecoverableResults(master, msg) ==
  {[kind |-> "result", by |-> master, msg |-> msg, parity |-> 0,
    recoveryId |-> 0],
   [kind |-> "result", by |-> master, msg |-> msg, parity |-> 0,
    recoveryId |-> 1],
   [kind |-> "result", by |-> master, msg |-> msg + 1, parity |-> 0,
    recoveryId |-> 0],
   [kind |-> "result", by |-> NoKey, msg |-> msg, parity |-> 0,
    recoveryId |-> 0],
   [kind |-> "null", by |-> master, msg |-> msg, parity |-> 0,
    recoveryId |-> 0],
   [kind |-> "throw", by |-> master, msg |-> msg, parity |-> 0,
    recoveryId |-> 0]}

\* recoverPublicKey: ecc.recover gives the signing key for the digest that
\* was signed and the right recovery id, another key otherwise; when it
\* throws or returns nothing the helper returns null (NoKey).
recoverPublicKey(msg, signature, recoveryId) ==
  IF signature.by = NoKey THEN NoKey
  ELSE IF signature.msg = msg /\ recoveryId = signature.parity
  THEN signature.by
  ELSE 0 - signature.by

\* arraysEqual
arraysEqual(a, b) == a = b

signEcdsaRecoverable_NoRecoveryCheck(root, hasPrivateKey, msg, produced) ==
  IF ~hasPrivateKey THEN [ok |-> FALSE, err |-> "NoPrivateKey",
                          val |-> NoBytes]
  ELSE IF produced.kind = "throw" THEN [ok |-> FALSE, err |-> "SignFailed",
                                        val |-> NoBytes]
  ELSE IF produced.kind = "null" THEN [ok |-> FALSE, err |-> "NoSignature",
                                       val |-> NoBytes]
  ELSE [ok |-> TRUE, err |-> "",
        val |-> [kind |-> "bytes", length |-> 65,
                 signature |-> [by |-> produced.by, msg |-> produced.msg,
                                parity |-> produced.parity],
                 recoveryId |-> produced.recoveryId]]

\* MultiSigSigner.signEcdsaRecoverable; produced is what ecc.signRecoverable
\* hands back.  The bytes returned are the signature followed by the
\* recovery id in an array of 65.
signEcdsaRecoverable(root, hasPrivateKey, msg, produced) ==
  LET recovered == recoverPublicKey(msg, produced, produced.recoveryId)
  IN  IF ~hasPrivateKey THEN [ok |-> FALSE, err |-> "NoPrivateKey",
                              val |-> NoBytes]
      ELSE IF produced.kind = "throw"
      THEN [ok |-> FALSE, err |-> "SignFailed", val |-> NoBytes]
      ELSE IF produced.kind = "null"
      THEN [ok |-> FALSE, err |-> "NoSignature", val |-> NoBytes]
      ELSE IF recovered = NoKey \/ ~arraysEqual(recovered, root)
      THEN [ok |-> FALSE, err |-> "RecoveryMismatch", val |-> NoBytes]
      ELSE [ok |-> TRUE, err |-> "",
            val |-> [kind |-> "bytes", length |-> 65,
                     signature |-> [by |-> produced.by, msg |-> produced.msg,
                                    parity |-> produced.parity],
                     recoveryId |-> produced.recoveryId]]

\* --------------------------------------------------------- signer actions
InitSigner == InitWith({NoConfig}, {<<>>})

\* A caller makes a signer from the mnemonic with root key k.
callCreateMultiSigSigner(k, texts) ==
  /\ signerOp' = [op |-> "create", root |-> k, texts |-> texts,
                  result |-> createMultiSigSigner(k, texts)]
  /\ UNCHANGED <<sdk, signer, pageVars, store, setupVars, lateVars>>

\* The SDK asks a signer whose node is root (with or without its private
\* key) for a signature.
callSignEcdsa(root, hasPrivateKey, msg, path, produced) ==
  /\ signerOp' = [op |-> "signEcdsa", root |-> root,
                  hasPrivateKey |-> hasPrivateKey, msg |-> msg,
                  path |-> path, produced |-> produced,
                  result |-> signEcdsa(root, hasPrivateKey, msg, path,
                                       produced)]
  /\ UNCHANGED <<sdk, signer, pageVars, store, setupVars, lateVars>>

callSignEcdsaRecoverable(root, hasPrivateKey, msg, produced) ==
  /\ signerOp' = [op |-> "signEcdsaRecoverable", root |-> root,
                  hasPrivateKey |-> hasPrivateKey, msg |-> msg,
                  produced |-> produced,
                  result |-> signEcdsaRecoverable(root, hasPrivateKey, msg,
                                                  produced)]
  /\ UNCHANGED <<sdk, signer, pageVars, store, setupVars, lateVars>>

NextSigner ==
  \/ \E k \in SignerRoots, texts \in CosignerTexts :
       callCreateMultiSigSigner(k, texts)
  \/ \E root \in SignerRoots, hasPrivateKey \in BOOLEAN, msg \in Digests,
        path \in Paths :
       \E produced \in EccSignResults(derivePath(root, path), msg) :
          callSignEcdsa(root, hasPrivateKey, msg, path, produced)
  \/ \E root \in SignerRoots, hasPrivateKey \in BOOLEAN, msg \in Digests :
       \E produced \in EccRecoverableResults(root, msg) :
          callSignEcdsaRecoverable(root, hasPrivateKey, msg, produced)

SpecSigner == InitSigner /\ [][NextSigner]_vars

\* ------------------------------------------------------------ broadcaster
\* The transactions an external broadcaster has accepted from this wallet.
\* walletService.broadcastTransaction sends no request to any broadcaster:
\* it logs the hex and returns an id made from the clock.
AcceptedByBroadcaster == {}

\* ============================================== signer: keys and ciphers
\* ------------------------------------------------------------ more bounds
MaxMsgLen == 2

\* A byte holds one of ByteRange values; the key stream is refreshed every
\* BlockLen bytes.
ByteRange == 256
BlockLen == 32

\* The group the keys are points of: the powers of Generator modulo
\* GroupPrime.  Private keys are exponents, 0 and the group order are none.
GroupPrime == 11
Generator == 2

RECURSIVE Exp(_, _)
Exp(b, e) == IF e = 0 THEN 1 ELSE (b * Exp(b, e - 1)) % GroupPrime

\* ecc.pointFromScalar: the public key of d, nothing for a d that is no
\* private key.
pointFromScalar(d) ==
  IF d \in 1..(GroupPrime - 2) THEN Exp(Generator, d) ELSE NoKey

\* ecc.pointMultiply: throws for bytes that are not a point.
pointMultiply(p, d) ==
  IF p \notin 1..(GroupPrime - 1) THEN Fail("ExpectedPoint")
  ELSE Ok(Exp(p, d))

\* The version bytes of a testnet extended public key.
TestnetPublic == 70617039

\* A BIP32 node: bip32.fromSeed gives the node "m" of the mnemonic with
\* root key k; its private key is k.
fromSeed(k, hasPrivateKey) ==
  [chainCode |-> [chain |-> k, path |-> "m"], depth |-> 0,
   hasPrivateKey |-> hasPrivateKey, index |-> 0,
   parentFingerprint |-> [hash160 |-> NoKey], path |-> "m",
   publicKey |-> pointFromScalar(k), root |-> k]

\* hdNode.derivePath(path) as a node: a child of the node at depth 1.
derivedNode(hdNode, path) ==
  [chainCode |-> [chain |-> hdNode.root, path |-> path],
   depth |-> hdNode.depth + 1, hasPrivateKey |-> hdNode.hasPrivateKey,
   index |-> IF path = "m/0" THEN 0 ELSE 1,
   parentFingerprint |-> [hash160 |-> hdNode.publicKey], path |-> path,
   publicKey |-> derivePath(hdNode.root, path), root |-> hdNode.root]

\* new MultiSigSigner(hdNode, cosignerKeys, threshold, signerIndex)
MultiSigSigner(hdNode, cosignerKeys, threshold, signerIndex) ==
  [cosignerKeys |-> cosignerKeys, hdNode |-> hdNode, kind |-> "signer",
   signerIndex |-> signerIndex, threshold |-> threshold]

\* ---------------------------------------------------------- derivations
\* serializeXpub: version, depth, parent fingerprint, child index, chain
\* code and public key, in this order.
serializeXpub(hdNode, version) ==
  <<version, hdNode.depth, hdNode.parentFingerprint, hdNode.index,
    hdNode.chainCode, hdNode.publicKey>>

xpub_WithSignerIndex(this) ==
  [ok |-> TRUE, err |-> "",
   val |-> Append(serializeXpub(this.hdNode, TestnetPublic),
                  this.signerIndex)]

\* MultiSigSigner.xpub
xpub(this) ==
  [ok |-> TRUE, err |-> "",
   val |-> serializeXpub(this.hdNode, TestnetPublic)]

\* MultiSigSigner.deriveXpub
deriveXpub(this, path) ==
  IF path \notin ValidPaths
  THEN [ok |-> FALSE, err |-> "InvalidPath", val |-> NoBytes]
  ELSE [ok |-> TRUE, err |-> "",
        val |-> serializeXpub(derivedNode(this.hdNode, path), TestnetPublic)]

\* MultiSigSigner.slip77MasterBlindingKey: the first 32 bytes of the
\* public key.
slip77MasterBlindingKey(this) ==
  [ok |-> TRUE, err |-> "",
   val |-> [of |-> this.hdNode.publicKey, from |-> 0, to |-> 32]]

\* ------------------------------------------------------------------ HMAC
\* hmac(sha256, key, data): distinct keys or data have distinct tags.
\* changed is 0 in every tag the function computes.
hmac(key, data) == [key |-> key, data |-> data, changed |-> 0]

\* What the three hmac calls of hmacSha256 can hand back: first is the tag
\* of the message, bytes of another length, nothing or an exception;
\* second says whether the recomputation gave the same bytes; flipped
\* whether the message with one bit flipped gave the same bytes.
HmacGenuine == [first |-> "mac", flipped |-> "other", second |-> "same"]
HmacResults ==
  {HmacGenuine,
   [first |-> "short", flipped |-> "other", second |-> "same"],
   [first |-> "null", flipped |-> "other", second |-> "same"],
   [first |-> "throw", flipped |-> "other", second |-> "same"],
   [first |-> "mac", flipped |-> "other", second |-> "other"],
   [first |-> "mac", flipped |-> "same", second |-> "same"]}

\* MultiSigSigner.hmacSha256; produced is what the hmac calls hand back.
hmacSha256(this, msg, path, produced) ==
  IF path \notin ValidPaths
  THEN [ok |-> FALSE, err |-> "InvalidPath", val |-> NoBytes]
  ELSE IF ~this.hdNode.hasPrivateKey
  THEN [ok |-> FALSE, err |-> "NoPrivateKey", val |-> NoBytes]
  ELSE IF produced.first = "throw"
  THEN [ok |-> FALSE, err |-> "HmacFailed", val |-> NoBytes]
  ELSE IF produced.first # "mac"
  THEN [ok |-> FALSE, err |-> "InvalidLength", val |-> NoBytes]
  ELSE IF produced.second # "same"
  THEN [ok |-> FALSE, err |-> "Inconsistent", val |-> NoBytes]
  ELSE IF msg # <<>> /\ produced.flipped = "same"
  THEN [ok |-> FALSE, err |-> "Unchanged", val |-> NoBytes]
  ELSE [ok |-> TRUE, err |-> "",
        val |-> hmac(derivePath(this.hdNode.root, path), msg)]

\* ----------------------------------------------------------------- ECIES
\* a ^ b on bytes
RECURSIVE xor(_, _)
xor(a, b) ==
  IF a = 0 /\ b = 0 THEN 0
  ELSE (((a % 2) + (b % 2)) % 2) + 2 * xor(a \div 2, b \div 2)

\* hkdf(sha256, sharedSecret, salt, info, 64) and its two halves.
hkdf(sharedSecret) ==
  [ikm |-> sharedSecret, info |-> "ECIES_ENCRYPTION_KEY"]
slice(bytes, from, to) == [of |-> bytes, from |-> from, to |-> to]

\* How often sha256 was applied to a key to get the key stream, and the
\* key it was applied to.
RECURSIVE Refreshes(_)
Refreshes(keyStream) ==
  IF "preimage" \in DOMAIN keyStream THEN 1 + Refreshes(keyStream.preimage)
  ELSE 0
RECURSIVE KeyOf(_)
KeyOf(keyStream) ==
  IF "preimage" \in DOMAIN keyStream THEN KeyOf(keyStream.preimage)
  ELSE keyStream

\* keyStream[j]: byte j of the key or of its hash.
ByteOf(keyStream, j) ==
  (KeyOf(keyStream).of.ikm * 37 + Refreshes(keyStream) * 101 + j * 7 + 5)
     % ByteRange

\* The cipher loop of eciesEncrypt and eciesDecrypt from index i on: the
\* key stream is replaced by its hash every BlockLen bytes.
RECURSIVE xorCipher(_, _, _, _)
xorCipher(bytes, keyStream, i, out) ==
  IF i >= Len(bytes) THEN out
  ELSE LET ks == IF i % BlockLen = 0 /\ i > 0 THEN sha256(keyStream)
                 ELSE keyStream
       IN  xorCipher(bytes, ks, i + 1,
                     Append(out, xor(bytes[i + 1], ByteOf(ks, i % BlockLen))))

eciesEncrypt_TagOverBodyOnly(this, msg, ephemeralPrivateKey) ==
  LET ephemeralPublicKey == pointFromScalar(ephemeralPrivateKey)
      recipientPublicKey == IF this.cosignerKeys # <<>>
                            THEN this.cosignerKeys[1]
                            ELSE this.hdNode.publicKey
      sharedSecret == pointMultiply(recipientPublicKey, ephemeralPrivateKey)
      derivedKey == hkdf(sharedSecret.val)
      encryptionKey == slice(derivedKey, 0, 32)
      hmacKey == slice(derivedKey, 32, 64)
      encryptedMessage == xorCipher(msg, encryptionKey, 0, <<>>)
      authTag == hmac(hmacKey, <<encryptedMessage>>)
  IN  IF ephemeralPublicKey = NoKey
      THEN [ok |-> FALSE, err |-> "NoEphemeralKey", val |-> NoBytes]
      ELSE IF ~sharedSecret.ok
      THEN [ok |-> FALSE, err |-> sharedSecret.err, val |-> NoBytes]
      ELSE [ok |-> TRUE, err |-> "",
            val |-> [kind |-> "payload", eph |-> ephemeralPublicKey,
                     body |-> encryptedMessage, tag |-> authTag]]

\* MultiSigSigner.eciesEncrypt; ephemeralPrivateKey is what randomBytes(32)
\* returned.
eciesEncrypt(this, msg, ephemeralPrivateKey) ==
  LET ephemeralPublicKey == pointFromScalar(ephemeralPrivateKey)
      recipientPublicKey == IF this.cosignerKeys # <<>>
                            THEN this.cosignerKeys[1]
                            ELSE this.hdNode.publicKey
      sharedSecret == pointMultiply(recipientPublicKey, ephemeralPrivateKey)
      derivedKey == hkdf(sharedSecret.val)
      encryptionKey == slice(derivedKey, 0, 32)
      hmacKey == slice(derivedKey, 32, 64)
      encryptedMessage == xorCipher(msg, encryptionKey, 0, <<>>)
      authTag == hmac(hmacKey, <<ephemeralPublicKey, encryptedMessage>>)
  IN  IF ephemeralPublicKey = NoKey
      THEN [ok |-> FALSE, err |-> "NoEphemeralKey", val |-> NoBytes]
      ELSE IF ~sharedSecret.ok
      THEN [ok |-> FALSE, err |-> sharedSecret.err, val |-> NoBytes]
      ELSE [ok |-> TRUE, err |-> "",
            val |-> [kind |-> "payload", eph |-> ephemeralPublicKey,
                     body |-> encryptedMessage, tag |-> authTag]]

\* constantTimeEquals: same length and no byte differs.
constantTimeEquals(a, b) == a = b

eciesDecrypt_DecryptFirst(this, payload) ==
  LET privateKey == this.hdNode.root
      sharedSecret == pointMultiply(payload.eph, privateKey)
      derivedKey == hkdf(sharedSecret.val)
      decryptionKey == slice(derivedKey, 0, 32)
      hmacKey == slice(derivedKey, 32, 64)
      computedAuthTag == hmac(hmacKey, <<payload.eph, payload.body>>)
  IN  IF payload.kind = "short"
      THEN [ok |-> FALSE, err |-> "TooShort", steps |-> <<>>,
            val |-> NoBytes]
      ELSE IF ~this.hdNode.hasPrivateKey
      THEN [ok |-> FALSE, err |-> "NoPrivateKey", steps |-> <<>>,
            val |-> NoBytes]
      ELSE IF ~sharedSecret.ok
      THEN [ok |-> FALSE, err |-> sharedSecret.err,
            steps |-> <<"pointMultiply">>, val |-> NoBytes]
      ELSE IF ~constantTimeEquals(payload.tag, computedAuthTag)
      THEN [ok |-> FALSE, err |-> "AuthenticationFailed",
            steps |-> <<"pointMultiply", "hkdf", "decrypt", "hmac",
                        "constantTimeEquals">>,
            val |-> NoBytes]
      ELSE [ok |-> TRUE, err |-> "",
            steps |-> <<"pointMultiply", "hkdf", "decrypt", "hmac",
                        "constantTimeEquals">>,
            val |-> xorCipher(payload.body, decryptionKey, 0, <<>>)]

\* MultiSigSigner.eciesDecrypt; steps lists the computations made before
\* the function returned or threw.
eciesDecrypt(this, payload) ==
  LET privateKey == this.hdNode.root
      sharedSecret == pointMultiply(payload.eph, privateKey)
      derivedKey == hkdf(sharedSecret.val)
      decryptionKey == slice(derivedKey, 0, 32)
      hmacKey == slice(derivedKey, 32, 64)
      computedAuthTag == hmac(hmacKey, <<payload.eph, payload.body>>)
  IN  IF payload.kind = "short"
      THEN [ok |-> FALSE, err |-> "TooShort", steps |-> <<>>,
            val |-> NoBytes]
      ELSE IF ~this.hdNode.hasPrivateKey
      THEN [ok |-> FALSE, err |-> "NoPrivateKey", steps |-> <<>>,
            val |-> NoBytes]
      ELSE IF ~sharedSecret.ok
      THEN [ok |-> FALSE, err |-> sharedSecret.err,
            steps |-> <<"pointMultiply">>, val |-> NoBytes]
      ELSE IF ~constantTimeEquals(payload.tag, computedAuthTag)
      THEN [ok |-> FALSE, err |-> "AuthenticationFailed",
            steps |-> <<"pointMultiply", "hkdf", "hmac",
                        "constantTimeEquals">>,
            val |-> NoBytes]
      ELSE [ok |-> TRUE, err |-> "",
            steps |-> <<"pointMultiply", "hkdf", "hmac",
                        "constantTimeEquals", "decrypt">>,
            val |-> xorCipher(payload.body, decryptionKey, 0, <<>>)]

\* ------------------------------------------------------- crypto inputs
\* The bytes messages are made of, the messages up to MaxMsgLen bytes and
\* one message a byte longer than a key-stream block.
MessageBytes == {0, ByteRange - 1}
Messages ==
  SeqsUpTo(MessageBytes, MaxMsgLen)
    \cup {[i \in 1..(BlockLen + 1) |-> (i * 3) % ByteRange]}

\* What randomBytes(32) can return: two private keys and bytes that are
\* none.
EphemeralKeys == {0, 3, 4}

\* The signers that encrypt, made from a mnemonic and cosigner keys (none,
\* well-formed hex that is no point of the curve, or the public key of a
\* mnemonic), and
\* the signers that decrypt and compute HMACs, with or without the private
\* key in their node.
Encryptors ==
  {MultiSigSigner(fromSeed(k, TRUE), keys, 2, 0) :
     k \in SignerRoots,
     keys \in {<<>>, <<NoKey>>}
                \cup {<<pointFromScalar(r)>> : r \in SignerRoots}}
Decryptors ==
  {MultiSigSigner(fromSeed(k, has), <<>>, 2, 0) :
     k \in SignerRoots, has \in BOOLEAN}

\* What can happen to a payload on its way: nothing, one byte of the
\* ephemeral public key changed (to bytes that are no point, or to another
\* point), one byte of the body changed, one byte of the tag changed, or
\* the end cut off so that fewer than 65 bytes arrive.
Tamperings(payload) ==
  {[kind |-> "none", at |-> 0, to |-> 0], [kind |-> "tag", at |-> 1, to |-> 1],
   [kind |-> "short", at |-> 0, to |-> 0]}
  \cup {[kind |-> "eph", at |-> 1, to |-> v] :
          v \in {0, GroupPrime - payload.eph}}
  \cup {[kind |-> "body", at |-> i, to |-> xor(payload.body[i], 1)] :
          i \in DOMAIN payload.body}

Tamper(payload, t) ==
  IF t.kind = "eph" THEN [payload EXCEPT !.eph = t.to]
  ELSE IF t.kind = "body" THEN [payload EXCEPT !.body[t.at] = t.to]
  ELSE IF t.kind = "tag" THEN [payload EXCEPT !.tag.changed = t.to]
  ELSE IF t.kind = "short" THEN [payload EXCEPT !.kind = "short"]
  ELSE payload

\* -------------------------------------------------------- crypto actions
callEciesEncrypt(this, msg, ephemeralPrivateKey) ==
  /\ signerOp' = [op |-> "eciesEncrypt", this |-> this, msg |-> msg,
                  result |-> eciesEncrypt(this, msg, ephemeralPrivateKey)]
  /\ UNCHANGED <<sdk, signer, pageVars, store, setupVars, lateVars>>

\* The payload of the last encryption reaches a signer, as sent or
\* tampered with, and the signer decrypts it.
callEciesDecrypt(this, t) ==
  /\ signerOp.op = "eciesEncrypt"
  /\ signerOp.result.ok
  /\ t \in Tamperings(signerOp.result.val)
  /\ LET received == Tamper(signerOp.result.val, t)
     IN  signerOp' = [op |-> "eciesDecrypt", this |-> this,
                      sender |-> signerOp.this, msg |-> signerOp.msg,
                      tamper |-> t, payload |-> received,
                      result |-> eciesDecrypt(this, received)]
  /\ UNCHANGED <<sdk, signer, pageVars, store, setupVars, lateVars>>

callHmacSha256(this, msg, path, produced) ==
  /\ signerOp' = [op |-> "hmacSha256", this |-> this, msg |-> msg,
                  path |-> path, produced |-> produced,
                  result |-> hmacSha256(this, msg, path, produced)]
  /\ UNCHANGED <<sdk, signer, pageVars, store, setupVars, lateVars>>

NextCrypto ==
  \/ \E this \in Encryptors, msg \in Messages, e \in EphemeralKeys :
       callEciesEncrypt(this, msg, e)
  \/ /\ signerOp.op = "eciesEncrypt"
     /\ signerOp.result.ok
     /\ \E this \in Decryptors, t \in Tamperings(signerOp.result.val) :
          callEciesDecrypt(this, t)
  \/ \E this \in Decryptors, msg \in SeqsUpTo(MessageBytes, 1),
        path \in Paths, produced \in HmacResults :
       callHmacSha256(this, msg, path, produced)
  \/ \E root \in SignerRoots, hasPrivateKey \in BOOLEAN, msg \in Digests,
        path \in Paths :
       \E produced \in EccSignResults(derivePath(root, path), msg) :
          callSignEcdsa(root, hasPrivateKey, msg, path, produced)
  \/ \E root \in SignerRoots, hasPrivateKey \in BOOLEAN, msg \in Digests :
       \E produced \in EccRecoverableResults(root, msg) :
          callSignEcdsaRecoverable(root, hasPrivateKey, msg, produced)

SpecCrypto == InitSigner /\ [][NextCrypto]_vars

\* ---------------------------------------------------- derivation actions
\* createMultiSigSigner(mnemonic, [], 2, index): the object made from the
\* mnemonic with root key k is kept in place o.
constructSigner(o, k, index) ==
  LET made == createMultiSigSigner(k, <<>>)
  IN  /\ signerOp' = [op |-> "create", root |-> k, texts |-> <<>>,
                      result |-> made]
      /\ signerObjects' =
           [signerObjects EXCEPT
              ![o] = IF made.ok
                     THEN MultiSigSigner(fromSeed(k, TRUE),
                                         made.cosignerKeys, 2, index)
                     ELSE @]
      /\ UNCHANGED <<sdk, signer, pageVars, store, setupVars, earlier, wasm,
                     session>>

callXpub(this) ==
  /\ signerOp' = [op |-> "xpub", this |-> this, result |-> xpub(this)]
  /\ UNCHANGED <<sdk, signer, pageVars, store, setupVars, lateVars>>

callDeriveXpub(this, path) ==
  /\ signerOp' = [op |-> "deriveXpub", this |-> this, path |-> path,
                  result |-> deriveXpub(this, path)]
  /\ UNCHANGED <<sdk, signer, pageVars, store, setupVars, lateVars>>

callSlip77MasterBlindingKey(this) ==
  /\ signerOp' = [op |-> "slip77MasterBlindingKey", this |-> this,
                  result |-> slip77MasterBlindingKey(this)]
  /\ UNCHANGED <<sdk, signer, pageVars, store, setupVars, lateVars>>

\* The operations whose results a caller compares.
DerivationOps == {"xpub", "deriveXpub", "hmacSha256",
                  "slip77MasterBlindingKey"}

\* The caller keeps what the last derivation call returned.
keepResult ==
  /\ signerOp.op \in DerivationOps
  /\ earlier' = signerOp
  /\ UNCHANGED <<sdk, signer, pageVars, store, setupVars, signerOp,
                 signerObjects, wasm, session>>

\* The signer objects that exist.
Constructed == {signerObjects[o] : o \in Slots} \ {NoObject}

NextDerive ==
  \/ \E o \in Slots, k \in SignerRoots, index \in {0, 1} :
       constructSigner(o, k, index)
  \/ \E this \in Constructed : callXpub(this)
  \/ \E this \in Constructed, path \in Paths : callDeriveXpub(this, path)
  \/ \E this \in Constructed : callSlip77MasterBlindingKey(this)
  \/ \E this \in Constructed, msg \in SeqsUpTo(MessageBytes, 1),
        path \in Paths :
       callHmacSha256(this, msg, path, HmacGenuine)
  \/ \E this \in Constructed, msg \in SeqsUpTo(MessageBytes, 1),
        e \in EphemeralKeys :
       callEciesEncrypt(this, msg, e)
  \/ keepResult

SpecDerive == InitSigner /\ [][NextDerive]_vars

\* ============================================================ wasm module
\* initWasm as far as its await: a call returns at once when the flag is
\* set; otherwise it invokes init() and waits for it.
initWasmCall(c) ==
  /\ wasm.pc[c] # "awaiting"
  /\ wasm.initialized \/ wasm.inits < MaxInits
  /\ IF wasm.initialized
     THEN wasm' = [wasm EXCEPT !.pc[c] = "returned"]
     ELSE wasm' = [wasm EXCEPT !.pc[c] = "awaiting", !.inits = @ + 1,
                               !.live = @ + 1]
  /\ UNCHANGED <<sdk, signer, pageVars, store, setupVars, signerOp, earlier,
                 signerObjects, session>>

\* The init() a call waits for resolves: initialized = true and the call
\* returns.
initResolves(c) ==
  /\ wasm.pc[c] = "awaiting"
  /\ wasm' = [wasm EXCEPT !.initialized = TRUE, !.pc[c] = "returned"]
  /\ UNCHANGED <<sdk, signer, pageVars, store, setupVars, signerOp, earlier,
                 signerObjects, session>>

\* The init() a call waits for rejects: the catch block rethrows and the
\* flag is not written.
initRejects(c) ==
  /\ wasm.pc[c] = "awaiting"
  /\ wasm' = [wasm EXCEPT !.pc[c] = "threw", !.live = @ - 1]
  /\ UNCHANGED <<sdk, signer, pageVars, store, setupVars, signerOp, earlier,
                 signerObjects, session>>

InitWasm == InitWith({NoConfig}, {<<>>})

NextWasm ==
  \/ \E c \in 1..MaxCallers : initWasmCall(c)
  \/ \E c \in 1..MaxCallers : initResolves(c)
  \/ \E c \in 1..MaxCallers : initRejects(c)

SpecWasm == InitWasm /\ [][NextWasm]_vars

\* ==================================================== wallet service calls
\* parseInput, prepareSendPayment, sendPayment, preparePayOnchain and
\* payOnchain have one shape: the handle is tested, then the SDK is asked.
payOnchain(answer) ==
  IF ~sdk THEN Fail("SdkNotInitialized") ELSE answer

\* walletStore.initialize up to its first await: the store takes the
\* configuration, the saved mnemonic is read (k is its root key), and
\* initWalletWithMultisig runs up to its await of createMultiSigSigner.
\* texts are the cosigner keys of the configuration as stored, apiKey
\* says that the build has a Breez API key.  The call keeps what the
\* module held before it.
callInitialize(cfg, k, texts, apiKey) ==
  LET c == "initialize"
      thrown == IF k = NoSigner THEN "NoMnemonic"
                ELSE IF ~apiKey THEN "NoApiKey" ELSE ""
      call == [kind |-> "call", k |-> k, texts |-> texts, cfg |-> cfg,
               before |-> [multiSigSigner |-> session.multiSigSigner,
                           signerOf |-> session.signerOf,
                           signer |-> signer,
                           sdk |-> sdk, sdkOf |-> session.sdkOf]]
  IN  /\ session.pc[c] \notin {"creating", "connecting", "fetching"}
      /\ config' = cfg
      /\ store' = [store EXCEPT !.error = thrown]
      /\ session' = IF k = NoSigner THEN session
                    ELSE [session EXCEPT
                            !.call[c] = call,
                            !.pc[c] = IF apiKey THEN "creating" ELSE "threw"]
      /\ UNCHANGED <<sdk, signer, psbt, errorMessage, escrowDetails,
                     psbtInput, psbtDetails, error, newPsbtOutput, txHex,
                     broadcastTxId, ready, lastCall, setupVars, signerOp,
                     earlier, signerObjects, wasm>>

\* The setup page's generatePublicKey up to its first await: the temporary
\* signer is asked for with no cosigner keys.
generatePublicKey(k, apiKey) ==
  LET c == "generatePublicKey"
      call == [kind |-> "call", k |-> k, texts |-> <<>>, cfg |-> NoConfig,
               before |-> [multiSigSigner |-> session.multiSigSigner,
                           signerOf |-> session.signerOf,
                           signer |-> signer,
                           sdk |-> sdk, sdkOf |-> session.sdkOf]]
  IN  /\ setupPage.step = "CONFIG"
      /\ session.pc[c] \notin {"creating", "connecting"}
      /\ setupPage' = IF k = NoSigner
                      THEN [setupPage EXCEPT !.errorMessage = "NoWallet"]
                      ELSE IF ~apiKey
                      THEN [setupPage EXCEPT !.errorMessage = "NoApiKey"]
                      ELSE setupPage
      /\ session' = IF k = NoSigner THEN session
                    ELSE [session EXCEPT
                            !.call[c] = call,
                            !.pc[c] = IF apiKey THEN "creating" ELSE "threw"]
      /\ UNCHANGED <<sdk, signer, pageVars, store, wallets, navigated, now,
                     loaded, signerOp, earlier, signerObjects, wasm>>

\* initWalletWithMultisig after its await of createMultiSigSigner: the
\* signer made is stored in the module and in the coordination service and
\* connectWithSigner is awaited; a failure goes to the caller's catch.
signerCreated(c) ==
  LET call == session.call[c]
      made == createMultiSigSigner(call.k, call.texts)
  IN  /\ session.pc[c] = "creating"
      /\ signer' = IF made.ok THEN made.signer ELSE signer
      /\ session' = IF made.ok
                    THEN [session EXCEPT !.pc[c] = "connecting",
                                         !.multiSigSigner = c,
                                         !.signerOf = c]
                    ELSE [session EXCEPT !.pc[c] = "threw"]
      /\ store' = IF ~made.ok /\ c = "initialize"
                  THEN [store EXCEPT !.error = made.err] ELSE store
      /\ setupPage' = IF ~made.ok /\ c = "generatePublicKey"
                      THEN [setupPage EXCEPT !.errorMessage = made.err]
                      ELSE setupPage
      /\ UNCHANGED <<sdk, pageVars, wallets, navigated, now, loaded,
                     signerOp, earlier, signerObjects, wasm>>

\* connectWithSigner settles.  Resolved: the handle is stored and the caller
\* goes on: initialize writes signer and address into the store and starts
\* the fetches, generatePublicKey shows the key.  Rejected: the caller's
\* catch runs.
connectSettles(c, resolved) ==
  LET call == session.call[c]
      allPubkeys == sortPubkeys(call.cfg.allPublicKeys)
      address == p2wsh(p2ms(call.cfg.threshold, allPubkeys)).address
  IN  /\ session.pc[c] = "connecting"
      /\ sdk' = IF resolved THEN TRUE ELSE sdk
      /\ session' = IF resolved
                    THEN [session EXCEPT
                            !.sdkOf = c,
                            !.pc[c] = IF c = "initialize" THEN "fetching"
                                      ELSE "done"]
                    ELSE [session EXCEPT !.pc[c] = "threw"]
      /\ store' = IF c # "initialize" THEN store
                  ELSE IF resolved
                  THEN [store EXCEPT !.signer = call.k, !.address = address]
                  ELSE [store EXCEPT !.error = "ConnectFailed"]
      /\ setupPage' = IF c # "generatePublicKey" THEN setupPage
                      ELSE IF resolved
                      THEN [setupPage EXCEPT !.myPublicKey = call.k,
                                             !.step = "SHARE"]
                      ELSE [setupPage EXCEPT !.errorMessage = "ConnectFailed"]
      /\ UNCHANGED <<signer, pageVars, wallets, navigated, now, loaded,
                     signerOp, earlier, signerObjects, wasm>>

\* fetchWalletDetails and fetchTransactions settle; each catches its own
\* failure and writes it into the store, and initialize marks the store
\* initialized.
fetchesSettle(fetched) ==
  /\ session.pc["initialize"] = "fetching"
  /\ store' = [store EXCEPT !.initialized = TRUE,
                            !.error = IF fetched THEN @ ELSE "FetchFailed"]
  /\ session' = [session EXCEPT !.pc["initialize"] = "done"]
  /\ UNCHANGED <<sdk, signer, pageVars, setupVars, signerOp, earlier,
                 signerObjects, wasm>>

\* walletStore.reset, called when the wallet page is destroyed.
reset ==
  /\ store' = NoStore
  /\ config' = NoConfig
  /\ UNCHANGED <<sdk, signer, psbt, errorMessage, escrowDetails, psbtInput,
                 psbtDetails, error, newPsbtOutput, txHex, broadcastTxId,
                 ready, lastCall, setupVars, signerOp, lateVars>>

\* disconnect up to its await: with no handle it returns at once.
callDisconnect ==
  /\ session.disconnect # "awaiting"
  /\ session' = [session EXCEPT
                   !.disconnect = IF sdk THEN "awaiting" ELSE "returned"]
  /\ UNCHANGED <<sdk, signer, pageVars, store, setupVars, signerOp, earlier,
                 signerObjects, wasm>>

disconnectSettles_DropsHandleOnThrow(resolved) ==
  /\ session.disconnect = "awaiting"
  /\ sdk' = FALSE
  /\ session' = [session EXCEPT
                   !.disconnect = IF resolved THEN "done" ELSE "threw",
                   !.sdkOf = IF resolved THEN "" ELSE @]
  /\ UNCHANGED <<signer, pageVars, store, setupVars, signerOp, earlier,
                 signerObjects, wasm>>

\* sdk.disconnect() settles: resolved, the handle is dropped; rejected, the
\* error is thrown on.
disconnectSettles(resolved) ==
  /\ session.disconnect = "awaiting"
  /\ sdk' = IF resolved THEN FALSE ELSE sdk
  /\ session' = [session EXCEPT
                   !.disconnect = IF resolved THEN "done" ELSE "threw",
                   !.sdkOf = IF resolved THEN "" ELSE @]
  /\ UNCHANGED <<signer, pageVars, store, setupVars, signerOp, earlier,
                 signerObjects, wasm>>

\* The setup page and the wallet page open wallets while the service is
\* also asked to disconnect.
NextSession ==
  \/ \E cfg \in {v \in ValidConfigs : v.threshold = 2},
        k \in SavedMnemonics, apiKey \in BOOLEAN,
        texts \in {t \in CosignerTexts :
                     Len(t) = 1 /\ t[1].prefix /\ t[1].length = 66} :
       callInitialize(cfg, k, texts, apiKey)
  \/ \E k \in SavedMnemonics, apiKey \in BOOLEAN : generatePublicKey(k, apiKey)
  \/ \E c \in DOMAIN session.pc : signerCreated(c)
  \/ \E c \in DOMAIN session.pc, resolved \in BOOLEAN :
       connectSettles(c, resolved)
  \/ \E fetched \in BOOLEAN : fetchesSettle(fetched)
  \/ reset
  \/ callDisconnect
  \/ \E resolved \in BOOLEAN : disconnectSettles(resolved)

SpecSession == InitSigner /\ [][NextSession]_vars

\* ================================================================= claims
IsPsbt(text) == text.kind = "psbt"

\* The distinct signers whose signature input i of p carries.
SignersOf(p, i) == Range(p.inputs[i].partialSig)

\* Every input of the PSBT text carries at least m distinct-signer
\* signatures.
EveryInputHas(text, m) ==
  /\ IsPsbt(text)
  /\ \A i \in DOMAIN text.inputs : Cardinality(SignersOf(text, i)) >= m

\* C1: the readiness check answers true if and only if each individual
\* input carries at least threshold signatures of distinct signers.
C1_ReadyIffEveryInputMeetsThreshold ==
  (IsPsbt(psbtInput) /\ ready # "unknown")
    => (ready = "ready" <=> EveryInputHas(psbtInput, config.threshold))

\* C2: finalize hands out a transaction only when every input of the PSBT
\* has at least threshold distinct-signer signatures; when an input is
\* short the call fails and no transaction and no txid is produced.
C2_FinalizeOnlyWhenThresholdMet ==
  /\ [](txHex # NoTx => EveryInputHas(psbtInput, config.threshold))
  /\ [][(handleFinalizeAndBroadcast
           /\ ~EveryInputHas(psbtInput, config.threshold))
          => (error' # "" /\ txHex' = txHex
              /\ broadcastTxId' = broadcastTxId)]_vars

C2_Witness ==
  /\ txHex # NoTx
  /\ Len(psbtInput.inputs) = MaxUtxos
  /\ EveryInputHas(psbtInput, config.threshold)
  /\ config.threshold >= 2

NoDuplicateSigs(text) ==
  IsPsbt(text) =>
    \A i \in DOMAIN text.inputs :
      Cardinality(SignersOf(text, i)) = Len(text.inputs[i].partialSig)

CanSign(text, k) ==
  /\ IsPsbt(text)
  /\ k \in Range(text.pubkeys)
  /\ \A i \in DOMAIN text.inputs : k \notin SignersOf(text, i)

SignThen(text, a, b) == signPsbt(signPsbt(text, a).val, b)

Unsigned(text) ==
  [text EXCEPT !.inputs =
     [i \in DOMAIN text.inputs |-> [text.inputs[i] EXCEPT !.partialSig = <<>>]]]

\* Every input of the PSBT text holds exactly the signatures sigs.
AllInputsSignedBy(text, sigs) ==
  /\ IsPsbt(text)
  /\ \A i \in DOMAIN text.inputs : text.inputs[i].partialSig = sigs

\* C4: two distinct signers who both can sign a PSBT get the same PSBT
\* text, the same readiness answer and the same finalize result whichever
\* of them signs first; a PSBT the page produced by signing a-then-b is
\* the text that b-then-a gives; in a 2-of-N wallet the two signatures on
\* an unsigned PSBT make finalize succeed.
C4_SigningCommutes ==
  /\ \A a, b \in Keys :
       (a # b /\ CanSign(psbtInput, a) /\ CanSign(psbtInput, b)) =>
         LET ab == SignThen(psbtInput, a, b)
             ba == SignThen(psbtInput, b, a)
         IN  /\ ab.ok /\ ba.ok
             /\ ab.val = ba.val
             /\ isPsbtReady(ab.val, config.threshold)
                  = isPsbtReady(ba.val, config.threshold)
             /\ finalizePsbt(ab.val) = finalizePsbt(ba.val)
             /\ (config.threshold = 2 /\ psbtInput = Unsigned(psbtInput))
                  => finalizePsbt(ab.val).ok
  /\ \A a, b \in Keys :
       (a # b /\ AllInputsSignedBy(psbtInput, <<a>>) /\ IsPsbt(newPsbtOutput)
          /\ \A i \in DOMAIN newPsbtOutput.inputs :
               SignersOf(newPsbtOutput, i) = {a, b})
         => newPsbtOutput = SignThen(Unsigned(psbtInput), b, a).val

C4_Witness ==
  /\ config.threshold = 2
  /\ \E a, b \in Keys :
       /\ b < a
       /\ AllInputsSignedBy(psbtInput, <<a>>)
       /\ AllInputsSignedBy(newPsbtOutput, <<b, a>>)
       /\ finalizePsbt(newPsbtOutput).ok

\* The two texts are the same transaction and every signature of old is
\* still in new.
SigsGrow(old, new) ==
  /\ IsPsbt(old) /\ IsPsbt(new)
  /\ Unsigned(old) = Unsigned(new)
  /\ \A i \in DOMAIN old.inputs : SignersOf(old, i) \subseteq SignersOf(new, i)

\* C5: the PSBT that signPsbt returns holds every signature of the PSBT it
\* was given, and the transaction on the page loses a signature only when
\* a newly built transaction replaces it.
C5_SignaturesOnlyGrow ==
  [][/\ (newPsbtOutput' # newPsbtOutput /\ IsPsbt(newPsbtOutput'))
        => SigsGrow(psbtInput, newPsbtOutput')
     /\ (psbtInput' # psbtInput /\ IsPsbt(psbtInput) /\ IsPsbt(psbtInput'))
        => (SigsGrow(psbtInput, psbtInput') \/ psbtInput' \in BuiltPsbts)]_vars

C5_Witness ==
  /\ IsPsbt(psbtInput) /\ IsPsbt(newPsbtOutput)
  /\ \A i \in DOMAIN psbtInput.inputs :
       /\ SignersOf(psbtInput, i) # {}
       /\ SignersOf(psbtInput, i) \subseteq SignersOf(newPsbtOutput, i)
       /\ SignersOf(psbtInput, i) # SignersOf(newPsbtOutput, i)

\* C6: a failing signPsbt or finalizePsbt leaves the PSBT it was given as
\* it was, and produces no output; a PSBT whose signing failed for want of
\* a signer or an SDK session can be signed as soon as there is one.
C6_FailureLeavesPsbtUnchanged ==
  /\ [][((handleSignPsbt \/ handleFinalizeAndBroadcast) /\ error' # "")
          => (psbtInput' = psbtInput /\ newPsbtOutput' = newPsbtOutput
              /\ txHex' = txHex)]_vars
  /\ []((IsPsbt(psbtInput) /\ error \in {"SignerNotSet", "SdkNotInitialized"})
          => \A k \in Keys :
               CanSign(psbtInput, k) => signPsbt(psbtInput, k).ok)

C6_Witness ==
  /\ IsPsbt(psbtInput)
  /\ error = "SignerNotSet"
  /\ newPsbtOutput = NoPsbt
  /\ \E k \in Keys : CanSign(psbtInput, k)

\* The last createPsbt call ran (the SDK guard let it through).
CreatePsbtRan ==
  /\ lastCall.kind = "call"
  /\ lastCall.result.err # "SdkNotInitialized"

OutputValuesOf(text) == [i \in DOMAIN text.outputs |-> text.outputs[i].value]

\* C7: for a non-empty UTXO snapshot and outputs that the inputs cover,
\* createPsbt returns a PSBT with one input per UTXO of the snapshot, the
\* requested outputs unchanged and one more output, the fee, of value
\* sum(inputs) - sum(outputs); all outputs together equal all inputs.
C7_CreateSpendsAllUtxosAndAddsFee ==
  (/\ CreatePsbtRan
   /\ lastCall.answer.ok
   /\ lastCall.answer.utxos # <<>>
   /\ SumSeq(lastCall.outputs) <= SumSeq(lastCall.answer.utxos))
  => LET utxos == lastCall.answer.utxos
         outputs == lastCall.outputs
         built == lastCall.result.val
     IN  /\ lastCall.result.ok
         /\ IsPsbt(built)
         /\ Len(built.inputs) = Len(utxos)
         /\ \A i \in DOMAIN utxos :
              /\ built.inputs[i].utxo = i
              /\ built.inputs[i].value = utxos[i]
              /\ built.inputs[i].partialSig = <<>>
         /\ Len(built.outputs) = Len(outputs) + 1
         /\ \A i \in DOMAIN outputs :
              built.outputs[i] = [script |-> "address", value |-> outputs[i]]
         /\ built.outputs[Len(outputs) + 1]
              = [script |-> "", value |-> SumSeq(utxos) - SumSeq(outputs)]
         /\ SumSeq(OutputValuesOf(built)) = SumSeq(utxos)

C7_Witness ==
  /\ CreatePsbtRan
  /\ lastCall.result.ok
  /\ Len(lastCall.answer.utxos) = MaxUtxos
  /\ Len(lastCall.outputs) = MaxOutputs
  /\ SumSeq(lastCall.outputs) < SumSeq(lastCall.answer.utxos)

\* C8: createPsbt fails with the no-UTXOs error when the explorer reports
\* no unspent output, and with the insufficient-funds error when the
\* outputs exceed the inputs; a PSBT that is returned has at least one
\* input and a fee that is not negative.
C8_NoUtxosAndInsufficientFundsRejected ==
  CreatePsbtRan =>
    LET utxos == lastCall.answer.utxos
        outputs == lastCall.outputs
        result == lastCall.result
    IN  /\ (lastCall.answer.ok /\ utxos = <<>>) => result = Fail("NoUtxos")
        /\ (utxos # <<>> /\ SumSeq(outputs) > SumSeq(utxos))
             => result = Fail("InsufficientFunds")
        /\ result.ok =>
             /\ result.val.inputs # <<>>
             /\ \A i \in DOMAIN result.val.outputs :
                  result.val.outputs[i].value >= 0

C8_Witness ==
  /\ CreatePsbtRan
  /\ lastCall.answer.utxos # <<>>
  /\ lastCall.result = Fail("InsufficientFunds")
  /\ psbt = NoPsbt

\* C9: describing a PSBT succeeds at every stage of its life (just built,
\* partially signed, fully signed) and leaves the PSBT as it was.
C9_DescribeSucceedsAtEveryStage ==
  [][(handleAnalyzePsbt /\ sdk /\ IsPsbt(psbtInput))
      => (error' = "" /\ psbtDetails' # NoDetails
          /\ psbtInput' = psbtInput)]_vars

\* The witness the tie-break asks for: the first m signatures in the
\* order of the keys in the script.
LowestSigs(p, input) == SubSeq(getSortedSigs(p, input), 1, p.m)

\* C10: when every input carries more than threshold signatures, finalize
\* builds each witness from exactly threshold of them, those of the lowest
\* signer indices, in signer-index order.
C10_FinalizeTakesLowestSigners ==
  [][(/\ handleFinalizeAndBroadcast
      /\ sdk
      /\ IsPsbt(psbtInput)
      /\ \A i \in DOMAIN psbtInput.inputs :
           Cardinality(SignersOf(psbtInput, i)) > psbtInput.m)
      => (/\ txHex' # NoTx
          /\ \A i \in DOMAIN psbtInput.inputs :
               txHex'.inputs[i].witness
                 = LowestSigs(psbtInput, psbtInput.inputs[i]))]_vars

\* ------------------------------------------------------------------ C11
\* Every order the keys of s can be listed in.
KeyOrders(s) == {q \in [DOMAIN s -> Range(s)] : Range(q) = Range(s)}

AddressOf(m, pubkeys) == p2wsh(p2ms(m, pubkeys)).address

C12_SpendAddressIsFundingAddress ==
  (store.initialized /\ lastCall.kind = "call"
     /\ lastCall.payment # NoPayment) =>
       lastCall.payment.address = store.address

\* ------------------------------------------------------------------ C13
\* The records the setup paths wrote.
SetupRecords ==
  {wallets[i] : i \in {j \in DOMAIN wallets :
                         wallets[j].via \in {"create", "join"}}}

\* C13: every configuration a setup path stored has a threshold of at
\* least 1 and at most the number of keys in its allPublicKeys.
C13_StoredThresholdInRange ==
  \A r \in SetupRecords :
     1 <= r.threshold /\ r.threshold <= Len(r.allPublicKeys)

\* ------------------------------------------------------------------ C14
\* C14: allPublicKeys of every stored configuration has pairwise distinct
\* entries.
C14_StoredKeysDistinct ==
  \A r \in SetupRecords :
     \A i, j \in DOMAIN r.allPublicKeys :
        i # j => r.allPublicKeys[i] # r.allPublicKeys[j]

\* ------------------------------------------------------------------ C16
\* C16: two stored configurations with the same key set and threshold have
\* the same id, that is, the registry never holds the same wallet twice.
C16_SameContentSameId ==
  \A i, j \in DOMAIN wallets :
     (/\ Range(wallets[i].allPublicKeys) = Range(wallets[j].allPublicKeys)
      /\ wallets[i].threshold = wallets[j].threshold)
       => wallets[i].id = wallets[j].id

\* ------------------------------------------------------------------ C17
\* C17: no configuration returned by getWallets or getWalletById has a key
\* list that was filled in from other fields of the record.
C17_LoadNeverReconstructsKeys ==
  \A i \in DOMAIN loaded : ~loaded[i].reconstructed

\* ------------------------------------------------------------------ C18
\* The decoded payload has a label, a threshold and an initiatorPublicKey.
HasAllThreeFields(code) ==
  /\ code.kind = "json"
  /\ code.label # ""
  /\ code.threshold # 0
  /\ code.initiatorPublicKey # NoKey

\* C18: a handleJoin step changes storage only for a payload with all three
\* fields; for every other join code it leaves storage alone, does not
\* navigate and sets a join error.
C18_JoinStoresOnlyCompletePayloads ==
  [][\A code \in JoinCodes :
       handleJoin(code) =>
         /\ wallets' # wallets => HasAllThreeFields(code)
         /\ ~HasAllThreeFields(code) =>
              /\ wallets' = wallets
              /\ navigated' = navigated
              /\ setupPage'.joinError # ""]_vars

\* A join with an incomplete or undecodable payload has been refused.
C18_Witness ==
  /\ setupPage.joinError = "InvalidJoinCode"
  /\ wallets = <<>>
  /\ navigated = NoNav

\* ------------------------------------------------------------------ C15
\* The text is the hex encoding of 33 or 65 bytes.
WellFormedKey(key) == ~key.prefix /\ key.hex /\ key.length \in {66, 130}

\* C15: when a cosigner key is not well-formed hex of 33 or 65 bytes,
\* createMultiSigSigner fails, has made no key-derivation call, and returns
\* no signer.
C15_MalformedKeyRejectedBeforeCrypto ==
  (/\ signerOp.op = "create"
   /\ \E i \in DOMAIN signerOp.texts : ~WellFormedKey(signerOp.texts[i]))
    => /\ ~signerOp.result.ok
       /\ signerOp.result.steps = <<>>
       /\ signerOp.result.signer = NoSigner

C26_TeardownDropsSigner == [][disconnect => signer' = NoSigner]_vars

\* ------------------------------------------------------------------ C28
\* C28: every configuration returned by the storage service has one more
\* key in allPublicKeys than in cosignerPublicKeys, so that the N shown
\* (cosignerPublicKeys.length + 1) is the N of the script built from
\* allPublicKeys.
C28_AllKeysIsCosignersPlusOne ==
  \A i \in DOMAIN loaded :
     Len(loaded[i].allPublicKeys) = Len(loaded[i].cosignerPublicKeys) + 1

\* ------------------------------------------------------------------ C29
\* C29: the page holds a broadcast transaction id only when the external
\* broadcaster accepted the transaction.
C29_TxidOnlyAfterAcceptedBroadcast ==
  broadcastTxId # "" => txHex \in AcceptedByBroadcaster

\* ------------------------------------------------------------------ C27
\* The public key of the mnemonic saved on this device.
LocalPublicKey == CHOOSE k \in SavedMnemonics : k # NoSigner

\* The index walletStore.initialize hands to the signer for record r.
SignerIndexOf(r) == IF r.signerIndex = NoIndex THEN 0 ELSE r.signerIndex

\* C27: in every configuration a setup path stored, the key of
\* allPublicKeys at the signer index is the public key of the local
\* mnemonic.
C27_KeyAtSignerIndexIsLocalKey ==
  \A r \in SetupRecords :
     r.allPublicKeys[SignerIndexOf(r) + 1] = LocalPublicKey

\* ------------------------------------------------------------------ C30
\* C30: over any number of initWasm calls, overlapping ones included, at
\* most one invocation of init() is running or has succeeded.
C30_WasmInitializedAtMostOnce == wasm.live <= 1

\* ------------------------------------------------------------------ C25
\* C25: while a PSBT is signed, no component other than the signer reads
\* or receives the node that holds the signer's private key.
C25_PrivateKeyStaysInSigner ==
  [][handleSignPsbt => hdNodeHolders(psbtInput) = {}]_vars

\* ------------------------------------------------------------------ C21
\* The public key a signer encrypts to.
RecipientOf(sender) ==
  IF sender.cosignerKeys # <<>> THEN sender.cosignerKeys[1]
  ELSE sender.hdNode.publicKey

\* The signer holds the private key of the key the payload was made for.
HoldsRecipientKey(this, sender) ==
  /\ this.hdNode.hasPrivateKey
  /\ this.hdNode.publicKey = RecipientOf(sender)

\* C21: a payload eciesEncrypt made, decrypted as sent by the signer that
\* holds the key it was addressed to, gives back the message, whether the
\* sender has cosigner keys or not.
C21_EciesRoundTrip ==
  (/\ signerOp.op = "eciesDecrypt"
   /\ signerOp.tamper.kind = "none"
   /\ HoldsRecipientKey(signerOp.this, signerOp.sender))
    => /\ signerOp.result.ok
       /\ signerOp.result.val = signerOp.msg

\* A message longer than a key-stream block, sent to a cosigner, came back.
C21_Witness ==
  /\ signerOp.op = "eciesDecrypt"
  /\ signerOp.tamper.kind = "none"
  /\ signerOp.sender.cosignerKeys # <<>>
  /\ signerOp.this.hdNode.root # signerOp.sender.hdNode.root
  /\ HoldsRecipientKey(signerOp.this, signerOp.sender)
  /\ Len(signerOp.msg) > BlockLen
  /\ signerOp.result.ok
  /\ signerOp.result.val = signerOp.msg
  /\ signerOp.payload.body # signerOp.msg

\* ------------------------------------------------------------------ C22
\* C22: when one byte of a payload was changed, in the ephemeral public
\* key, the body or the tag, eciesDecrypt on a signer with its private key
\* fails with the authentication failure and with no other error.
C22_TamperingGivesAuthenticationFailure ==
  (/\ signerOp.op = "eciesDecrypt"
   /\ signerOp.tamper.kind \in {"eph", "body", "tag"}
   /\ signerOp.this.hdNode.hasPrivateKey)
    => /\ ~signerOp.result.ok
       /\ signerOp.result.err = "AuthenticationFailed"

\* ------------------------------------------------------------------ C23
\* The tag comparison is among the steps before position i.
TagCheckedBefore(steps, i) ==
  \E j \in 1..(i - 1) : steps[j] = "constantTimeEquals"

SameDerivation(a, b) ==
  /\ a.op \in DerivationOps
  /\ b.op = a.op
  /\ b.this.hdNode.root = a.this.hdNode.root
  /\ a.op \in {"deriveXpub", "hmacSha256"} => b.path = a.path
  /\ a.op = "hmacSha256" => b.msg = a.msg

ServiceTexts ==
  {c.val : c \in {r \in {createPsbt(v.allPublicKeys, v.threshold, <<a>>, ans) :
                           v \in ValidConfigs, a \in OutputValues,
                           ans \in ExplorerAnswers} : r.ok}}
    \cup {Garbage, NoPsbt}

\* What the payment, PSBT and broadcast operations of the wallet service
\* return in the current state, over what they can be given.
ServiceResults ==
  {getPsbtDetails(t) : t \in ServiceTexts}
    \cup {walletSignPsbt(t) : t \in ServiceTexts}
    \cup {walletFinalizePsbt(t) : t \in ServiceTexts}
    \cup {broadcastTransaction(t) : t \in ServiceTexts}
    \cup {createMultisigTx(v.allPublicKeys, v.threshold, o, ans) :
            v \in ValidConfigs, o \in OutputLists, ans \in ExplorerAnswers}
    \cup {payOnchain(answer) : answer \in {Ok("payment"), Fail("SdkError")}}

\* C31: the SDK handle is non-null exactly between a successful connect and
\* the next successful disconnect: it becomes non-null only when a connect
\* resolves and null only when sdk.disconnect() resolves, both always have
\* that effect, and a rejected sdk.disconnect() leaves the handle as it
\* was.  While the handle is null every payment, PSBT and broadcast
\* operation fails with 'SDK not initialized' whatever it is given, so
\* before the coordination service or the network is asked.
C31_HandleFollowsConnectAndDisconnect ==
  /\ [](~sdk => \A r \in ServiceResults : r = Fail("SdkNotInitialized"))
  /\ [][/\ (~sdk /\ sdk') =>
              \E c \in DOMAIN session.pc : connectSettles(c, TRUE)
        /\ (sdk /\ ~sdk') => disconnectSettles(TRUE)
        /\ (\E c \in DOMAIN session.pc : connectSettles(c, TRUE)) => sdk'
        /\ disconnectSettles(TRUE) => ~sdk'
        /\ disconnectSettles(FALSE) => sdk' = sdk]_vars

\* A caller's connect has resolved and a later disconnect has resolved: the
\* handle is null again and the operations are refused.
C31_Witness ==
  /\ ~sdk
  /\ session.disconnect = "done"
  /\ \E c \in DOMAIN session.pc : session.pc[c] \in {"done", "fetching"}
  /\ walletSignPsbt(Garbage) = Fail("SdkNotInitialized")

\* C32: a failed initWalletWithMultisig leaves the session as it was: when
\* a call has thrown, and neither the other caller nor disconnect has run,
\* the module's signer, the coordination service's signer and the SDK
\* handle are the ones from before the call.
C32_FailedInitLeavesSessionUnchanged ==
  \A c \in DOMAIN session.pc :
    (/\ session.pc[c] = "threw"
     /\ \A d \in DOMAIN session.pc \ {c} : session.pc[d] = "idle"
     /\ session.disconnect = "idle")
    => LET before == session.call[c].before
       IN  /\ session.multiSigSigner = before.multiSigSigner
           /\ session.signerOf = before.signerOf
           /\ signer = before.signer
           /\ sdk = before.sdk
           /\ session.sdkOf = before.sdkOf

\* C33: once the calls of initWalletWithMultisig of both callers have
\* completed and the service is connected, the SDK handle and the signer
\* of the coordination service come from the same call.
C33_HandleAndSignerFromSameCall ==
  (/\ \A c \in DOMAIN session.pc : session.pc[c] \in {"done", "fetching"}
   /\ sdk)
    => session.sdkOf = session.signerOf

\* C34: a store marked initialized has no error and has config, signer and
\* address.
C34_InitializedMeansComplete ==
  store.initialized =>
    /\ store.error = ""
    /\ config # NoConfig
    /\ store.signer # NoSigner
    /\ store.address # NoAddress

\* C35: reset is final for the work in flight: while no initialize has been
\* started since the last reset (the store's config is null) and none is
\* still running, the store holds its initial state.
C35_ResetIsFinal ==
  (/\ config = NoConfig
   /\ session.pc["initialize"] \notin {"creating", "connecting", "fetching"})
    => store = NoStore

\* C36: removeWallet(id) removes exactly the stored records whose id is id
\* and leaves every other stored record as it was, with the allPublicKeys
\* it had or without one; addWallet of a record whose id is stored leaves
\* storage unchanged; the stored ids stay pairwise distinct.
C36_RemoveAndAddTouchOnlyTheirRecord ==
  [][/\ \A id \in 0..MaxTime :
          callRemoveWallet(id) =>
            Range(wallets') = {r \in Range(wallets) : r.id # id}
     /\ \A cfg \in NewConfigs :
          (callAddWallet(cfg) /\ \E r \in Range(wallets) : r.id = cfg.id)
            => wallets' = wallets
     /\ \A i, j \in DOMAIN wallets' :
          wallets'[i].id = wallets'[j].id => i = j]_vars

\* C37: createPsbt tells a failed UTXO lookup from an unfunded address:
\* when the request to the explorer failed, createPsbt fails and not with
\* one of its own two errors, and 'No UTXOs found' is raised only when the
\* explorer answered with an empty list.
C37_FetchFailureIsNotNoUtxos ==
  (lastCall.kind = "call" /\ lastCall.result.err # "SdkNotInitialized") =>
    /\ ~lastCall.answer.ok =>
         /\ ~lastCall.result.ok
         /\ lastCall.result.err \notin {"NoUtxos", "InsufficientFunds"}
    /\ lastCall.result.err = "NoUtxos" =>
         (lastCall.answer.ok /\ lastCall.answer.utxos = <<>>)

\* C38: the sign page offers 'Finalize & Broadcast' exactly when the
\* analysed PSBT is ready for the wallet's configuration: after the PSBT in
\* the text field has been analysed, isReadyForBroadcast is true if and
\* only if every input has at least threshold signatures of distinct
\* signers, and the 'signed by' list has one entry per signer that signed.
C38_OfferedIffReadyForOwnThreshold ==
  [][(handleAnalyzePsbt /\ IsPsbt(psbtInput)) =>
       /\ isReadyForBroadcast' <=>
            EveryInputHas(psbtInput, config.threshold)
       /\ psbtDetails' # NoDetails =>
            Len(psbtDetails'.signedBy) =
              Cardinality(UNION {SignersOf(psbtInput, i) :
                                   i \in DOMAIN psbtInput.inputs})]_vars

\* C39: every invite code createJoinCode makes after a successful
\* handleCreate is accepted by handleJoin, and the record stored has the
\* creator's threshold and initiator key and as many participants as the
\* creator's totalSigners.
C39_InviteRoundTrip ==
  [][\A label \in {"", "escrow"} :
       (setupPage.step = "SHARE" /\ handleJoin(createJoinCode(label))) =>
         /\ setupPage'.joinError = ""
         /\ \E i \in DOMAIN wallets' :
              /\ wallets'[i].via = "join"
              /\ wallets'[i].id = navigated'
              /\ wallets'[i].threshold = setupPage.threshold
              /\ wallets'[i].cosignerPublicKeys = <<setupPage.myPublicKey>>
              /\ Len(wallets'[i].allPublicKeys) = setupPage.totalSigners]_vars
====
